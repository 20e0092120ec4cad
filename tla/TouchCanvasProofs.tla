-------------------------- MODULE TouchCanvasProofs --------------------------
(* Theorems about TouchCanvas, for any fingers, circles, sizes and bounds,   *)
(* and however long the compositor takes.                                    *)
EXTENDS TouchCanvas, TLAPS, FiniteSetTheorems

AppFields == {"phase", "W", "allocated", "tps", "last", "gen", "cur",
              "inflight", "pending", "acked"}
Typed(c) ==
  /\ DOMAIN c = AppFields /\ c.W \in Nat /\ c.gen \in Nat /\ c.cur \in {0, 1}
  /\ c.allocated \in BOOLEAN /\ c.inflight \in BOOLEAN /\ c.pending \in BOOLEAN

Events == [type : {"down", "motion"}, id : Ids, at : Points] \cup [type : {"up"}, id : Ids]
            \cup [type : {"toplevel"}, size : Sizes]
            \cup [type : {"done", "cancel", "xdg", "sync", "close"}]
Buffers == Nat \X {0, 1}
Commits == [buf : Buffers, size : Nat, lit : SUBSET Nat, damage : SUBSET Nat]

Types == /\ Typed(app) /\ wire \in Seq(Events) /\ commits \in Seq(Commits)
         /\ overlap \in BOOLEAN /\ screen.buf \in Buffers

(* What has changed since the last commit is noted, unless it is drawn.      *)
Drawn(c) == c.phase = "loop" => /\ c.allocated
                                /\ ~c.pending => c.last = Shown(c)
                                /\ ~c.inflight => ~c.pending

DoneIn(w)  == \E i \in DOMAIN w : w[i].type = "done"
OneDone(w) == \E i \in DOMAIN w : /\ w[i].type = "done"
                                  /\ \A j \in DOMAIN w : w[j].type = "done" => j = i

(* Frames in flight have a callback to come; but for the wake of a rebuilding *)
(* there is one at most, and none that the client does not know of.           *)
Owed ==
  /\ app.inflight => Callbacks
  /\ ~overlap /\ ~app.inflight => ~Callbacks
  /\ ~overlap /\ app.inflight =>
       \/ Len(commits) = 1 /\ ~DoneIn(wire)
       \/ commits = <<>> /\ OneDone(wire)

(* What was committed last is the other buffer, or an older pair.            *)
Behind(b, c) == b[1] < c.gen \/ (b[1] = c.gen /\ b[2] = 1 - c.cur)
Newest == IF commits = <<>> THEN screen.buf ELSE commits[Len(commits)].buf
Swapped == /\ screen.buf[1] <= app.gen
           /\ app.allocated => Behind(Newest, app)
           /\ ~app.allocated => commits = <<>>

IInv == Types /\ Drawn(app) /\ Owed /\ Swapped

-----------------------------------------------------------------------------
LEMMA DoneHead ==
  ASSUME NEW w \in Seq(Events), w # <<>>
  PROVE  /\ Tail(w) \in Seq(Events) /\ Head(w) \in Events
         /\ DoneIn(w) <=> Head(w).type = "done" \/ DoneIn(Tail(w))
         /\ OneDone(w) /\ Head(w).type # "done" => OneDone(Tail(w))
         /\ OneDone(w) /\ Head(w).type = "done" => ~DoneIn(Tail(w))
<1> DEFINE n == Len(w)
<1>1. n \in Nat /\ n > 0 /\ DOMAIN w = 1 .. n /\ Head(w) = w[1]
  OBVIOUS
<1>2. Tail(w) \in Seq(Events) /\ Len(Tail(w)) = n - 1 /\ DOMAIN Tail(w) = 1 .. n - 1
      /\ \A i \in 1 .. n - 1 : Tail(w)[i] = w[i + 1]
  OBVIOUS
<1>3. Head(w) \in Events
  OBVIOUS
<1> HIDE DEF n
<1>4. ASSUME DoneIn(w), Head(w).type # "done" PROVE DoneIn(Tail(w))
  <2> PICK i \in 1 .. n : w[i].type = "done"
    BY <1>1, <1>4 DEF DoneIn
  <2>1. i - 1 \in 1 .. n - 1 /\ Tail(w)[i - 1] = w[i]
    BY <1>1, <1>2, <1>4
  <2>2. QED
    BY <1>2, <2>1 DEF DoneIn
<1>5. ASSUME DoneIn(Tail(w)) PROVE DoneIn(w)
  <2> PICK i \in 1 .. n - 1 : Tail(w)[i].type = "done"
    BY <1>2, <1>5 DEF DoneIn
  <2>1. i + 1 \in 1 .. n /\ w[i + 1].type = "done"
    BY <1>1, <1>2
  <2>2. QED
    BY <1>1, <2>1 DEF DoneIn
<1>6. Head(w).type = "done" => DoneIn(w)
  BY <1>1 DEF DoneIn
<1>7. ASSUME OneDone(w), Head(w).type # "done" PROVE OneDone(Tail(w))
  <2> PICK i \in 1 .. n : w[i].type = "done" /\ \A j \in 1 .. n : w[j].type = "done" => j = i
    BY <1>1, <1>7 DEF OneDone
  <2>1. i - 1 \in 1 .. n - 1 /\ Tail(w)[i - 1] = w[i]
    BY <1>1, <1>2, <1>7
  <2>2. \A j \in 1 .. n - 1 : Tail(w)[j].type = "done" => j = i - 1
    BY <1>1, <1>2
  <2>3. QED
    BY <1>2, <2>1, <2>2 DEF OneDone
<1>8. ASSUME OneDone(w), Head(w).type = "done" PROVE ~DoneIn(Tail(w))
  <2>1. \A j \in 1 .. n : w[j].type = "done" => j = 1
    BY <1>1, <1>8 DEF OneDone
  <2>2. \A j \in 1 .. n - 1 : Tail(w)[j].type # "done"
    BY <1>1, <1>2, <2>1
  <2>3. QED
    BY <1>2, <2>2 DEF DoneIn
<1>9. QED
  BY <1>2, <1>3, <1>4, <1>5, <1>6, <1>7, <1>8

LEMMA DoneAfter ==
  ASSUME NEW w \in Seq(Events), NEW v \in Seq(Events), ~DoneIn(v)
  PROVE  /\ w \o v \in Seq(Events)
         /\ DoneIn(w \o v) <=> DoneIn(w)
         /\ OneDone(w) => OneDone(w \o v)
<1> DEFINE n == Len(w)
           m == Len(v)
           u == w \o v
<1>1. /\ n \in Nat /\ m \in Nat /\ DOMAIN w = 1 .. n /\ DOMAIN v = 1 .. m
      /\ u \in Seq(Events) /\ DOMAIN u = 1 .. n + m
      /\ \A i \in 1 .. n : u[i] = w[i]
      /\ \A i \in n + 1 .. n + m : u[i] = v[i - n]
  OBVIOUS
<1> HIDE DEF n, m, u
<1>2. \A i \in 1 .. n + m : u[i].type = "done" => i \in 1 .. n
  <2> SUFFICES ASSUME NEW i \in n + 1 .. n + m PROVE u[i].type # "done"
    BY <1>1
  <2>1. i - n \in 1 .. m
    BY <1>1
  <2>2. QED
    BY <1>1, <2>1 DEF DoneIn
<1>3. DoneIn(u) <=> DoneIn(w)
  <2>1. ASSUME NEW i \in 1 .. n PROVE i \in 1 .. n + m
    BY <1>1
  <2>2. DoneIn(w) <=> \E i \in 1 .. n : w[i].type = "done"
    BY <1>1 DEF DoneIn
  <2>3. DoneIn(u) <=> \E i \in 1 .. n + m : u[i].type = "done"
    BY <1>1 DEF DoneIn
  <2>4. QED
    BY <1>1, <1>2, <2>1, <2>2, <2>3
<1>4. ASSUME OneDone(w) PROVE OneDone(u)
  <2> PICK i \in 1 .. n : w[i].type = "done" /\ \A j \in 1 .. n : w[j].type = "done" => j = i
    BY <1>1, <1>4 DEF OneDone
  <2>1. i \in 1 .. n + m /\ u[i].type = "done"
    BY <1>1
  <2>2. \A j \in 1 .. n + m : u[j].type = "done" => j = i
    BY <1>1, <1>2
  <2>3. QED
    BY <1>1, <2>1, <2>2 DEF OneDone
<1>5. QED
  BY <1>1, <1>3, <1>4 DEF u

-----------------------------------------------------------------------------
(* What render() and schedule() do to the client.                            *)
Alike(r, c) == r.gen = c.gen /\ r.cur = c.cur /\ r.allocated = c.allocated

Drew(c) ==
  /\ Typed(app') /\ app'.inflight /\ app'.allocated /\ app'.last = Shown(app')
  /\ app'.gen = c.gen /\ app'.cur = 1 - c.cur /\ c.cur \in {0, 1}
  /\ commits' \in Seq(Commits) /\ Len(commits') = Len(commits) + 1
  /\ commits'[Len(commits')].buf = <<c.gen, c.cur>>

Still(c) ==
  /\ Typed(app') /\ Drawn(app') /\ Alike(app', c) /\ app'.inflight = c.inflight
  /\ commits' = commits

LEMMA CommitType ==
  ASSUME NEW c, Typed(c) PROVE Commit(c) \in Commits /\ Commit(c).buf = <<c.gen, c.cur>>
<1>1. Surface(c) \subseteq Nat
  BY DEF Surface, Typed
<1>2. Lit(Shown(c), c) \subseteq Surface(c) /\ Damage(c) \subseteq Surface(c)
  BY DEF Lit, Damage, Box
<1>3. QED
  BY <1>1, <1>2 DEF Commit, Commits, Buffers, Typed

LEMMA RenderDraws ==
  ASSUME NEW c, Typed(c), c.allocated, commits \in Seq(Commits), Render(c) PROVE Drew(c)
<1>1. app' = [c EXCEPT !.inflight = TRUE, !.last = Shown(c), !.cur = 1 - c.cur]
  BY DEF Render, Rendered
<1>2. Typed(app') /\ app'.inflight /\ app'.allocated /\ app'.last = Shown(c) /\ app'.tps = c.tps
      /\ app'.gen = c.gen /\ app'.cur = 1 - c.cur /\ c.cur \in {0, 1}
  <2>1. c.cur \in {0, 1} /\ 1 - c.cur \in {0, 1}
    BY DEF Typed
  <2>2. DOMAIN app' = AppFields /\ app'.inflight = TRUE /\ app'.last = Shown(c)
        /\ app'.cur = 1 - c.cur
    BY <1>1 DEF Typed, AppFields
  <2>3. app'.tps = c.tps /\ app'.gen = c.gen /\ app'.W = c.W /\ app'.allocated = c.allocated
        /\ app'.pending = c.pending
    BY <1>1 DEF Typed, AppFields
  <2>4. QED
    BY <2>1, <2>2, <2>3 DEF Typed
<1>3. Shown(app') = Shown(c)
  BY <1>2 DEF Shown
<1>4. commits' = Append(commits, Commit(c))
  BY DEF Render
<1>5. commits' \in Seq(Commits) /\ Len(commits') = Len(commits) + 1
      /\ commits'[Len(commits')] = Commit(c)
  BY <1>4, CommitType
<1>6. QED
  BY <1>2, <1>3, <1>5, CommitType DEF Drew

LEMMA RenderDies ==
  ASSUME NEW c, Typed(c), ~c.allocated, Render(c) PROVE Still(c)
<1>1. app' = [c EXCEPT !.phase = "crashed"] /\ commits' = commits
  BY DEF Render, Rendered
<1>2. QED
  BY <1>1 DEF Still, Typed, AppFields, Alike, Drawn

LEMMA ScheduleDoes ==
  ASSUME NEW c, Typed(c), c.phase = "loop" => c.allocated, commits \in Seq(Commits), Schedule(c)
  PROVE  (~c.inflight /\ Drew(c)) \/ Still(c)
<1>1. CASE c.inflight
  <2>1. app' = [c EXCEPT !.pending = TRUE] /\ commits' = commits
    BY <1>1 DEF Schedule, Keep
  <2>2. QED
    BY <1>1, <2>1 DEF Still, Typed, AppFields, Alike, Drawn
<1>2. CASE ~c.inflight /\ c.allocated
  BY <1>2, RenderDraws DEF Schedule
<1>3. CASE ~c.inflight /\ ~c.allocated
  BY <1>3, RenderDies DEF Schedule
<1>4. QED
  BY <1>1, <1>2, <1>3 DEF Typed

LEMMA AllocType ==
  ASSUME NEW c, Typed(c)
  PROVE  /\ Typed(Alloc(c)) /\ Alloc(c).allocated /\ ~Alloc(c).inflight
         /\ Alloc(c).gen = c.gen + 1 /\ Alloc(c).cur = 0 /\ Alloc(c).phase = c.phase
<1>1. c.gen + 1 \in Nat
  BY DEF Typed
<1>2. /\ DOMAIN Alloc(c) = AppFields /\ Alloc(c).W = c.W
      /\ Alloc(c).gen = c.gen + 1 /\ Alloc(c).cur = 0
  BY DEF Alloc, Typed, AppFields
<1>3. Alloc(c).allocated = TRUE /\ Alloc(c).inflight = FALSE /\ Alloc(c).pending = FALSE
      /\ Alloc(c).phase = c.phase
  BY DEF Alloc, Typed, AppFields
<1>4. QED
  BY <1>1, <1>2, <1>3 DEF Typed

(* What one event comes to: it ends a frame, or is drawn or noted in the     *)
(* buffers there are, or has new ones made and drawn.                        *)
Ended(e)   == e.type = "done" /\ \E c : Alike(c, app) /\ ~c.inflight /\ (Drew(c) \/ Still(c))
Noted(e)   == /\ e.type # "done"
              /\ \E c : Alike(c, app) /\ c.inflight = app.inflight
                        /\ ((~c.inflight /\ Drew(c)) \/ Still(c))
Remade(e)  == /\ e.type # "done"
              /\ \E c : c.gen = app.gen + 1 /\ c.allocated /\ Drew(c)

LEMMA TouchNoted ==
  ASSUME IInv, NEW e, e.type # "done", NEW S, NEW tp, Schedule(With(app, S, tp))
  PROVE  Noted(e)
<1> DEFINE c == With(app, S, tp)
<1>1. Typed(c) /\ Alike(c, app) /\ c.inflight = app.inflight /\ c.phase = app.phase
  BY DEF With, IInv, Types, Typed, AppFields, Alike
<1>2. c.phase = "loop" => c.allocated
  BY <1>1 DEF IInv, Drawn, Alike
<1>3. Schedule(c) /\ commits \in Seq(Commits)
  BY DEF IInv, Types
<1> HIDE DEF c
<1>4. QED
  BY <1>1, <1>2, <1>3, ScheduleDoes DEF Noted

LEMMA KeptNoted == ASSUME IInv, NEW e, e.type # "done", Keep(app) PROVE Noted(e)
<1>1. Still(app) /\ Alike(app, app)
  BY DEF Keep, IInv, Types, Still, Alike
<1>2. QED
  BY <1>1 DEF Noted

LEMMA FrameDoneEnds ==
  ASSUME IInv, NEW e, e.type = "done", FrameDone PROVE Ended(e)
<1> DEFINE c == [app EXCEPT !.inflight = FALSE, !.pending = FALSE]
<1>1. Typed(c) /\ Alike(c, app) /\ c.inflight = FALSE /\ c.pending = FALSE /\ c.phase = app.phase
      /\ c.last = app.last /\ c.tps = app.tps
  BY DEF IInv, Types, Typed, AppFields, Alike
<1>2. commits \in Seq(Commits) /\ (app.phase = "loop" => app.allocated)
  BY DEF IInv, Types, Drawn
<1>3. IF app.pending THEN Render(c) ELSE Keep(c)
  BY DEF FrameDone
<1> HIDE DEF c
<1>4. CASE app.pending /\ c.allocated
  BY <1>1, <1>2, <1>3, <1>4, RenderDraws DEF Ended
<1>5. CASE app.pending /\ ~c.allocated
  BY <1>1, <1>3, <1>5, RenderDies DEF Ended
<1>6. CASE ~app.pending
  <2>1. Shown(c) = Shown(app)
    BY <1>1 DEF Shown
  <2>2. Drawn(c)
    BY <1>1, <1>6, <2>1 DEF IInv, Drawn, Alike
  <2>3. Still(c)
    BY <1>1, <1>3, <1>6, <2>2 DEF Keep, Still, Alike
  <2>4. QED
    BY <1>1, <2>3 DEF Ended
<1>7. QED
  BY <1>1, <1>4, <1>5, <1>6 DEF IInv, Types, Typed

LEMMA ConfigureDoes ==
  ASSUME IInv, NEW e \in Events, e.type = "toplevel", TConfigure(e) PROVE Noted(e) \/ Remade(e)
<1>1. e.size \in Nat
  BY CanvasAssumption DEF Events
<1>2. CASE e.size \notin {0, app.W}
  <2> DEFINE b == [app EXCEPT !.W = e.size]
             c == Alloc(b)
  <2>1. Typed(b) /\ b.gen = app.gen
    BY <1>1 DEF IInv, Types, Typed, AppFields
  <2>2. Schedule(c)
    BY <1>1, <1>2 DEF TConfigure
  <2> HIDE DEF b
  <2>3. Typed(c) /\ c.allocated /\ ~c.inflight /\ c.gen = app.gen + 1
    BY <2>1, AllocType
  <2> HIDE DEF c
  <2>4. Drew(c)
    BY <2>2, <2>3, RenderDraws DEF Schedule, IInv, Types
  <2>5. QED
    BY <2>3, <2>4 DEF Remade
<1>3. CASE e.size \in {0, app.W} /\ e.size > 0
  <2>1. Schedule(app)
    BY <1>3 DEF TConfigure
  <2>2. (~app.inflight /\ Drew(app)) \/ Still(app)
    BY <2>1, ScheduleDoes DEF IInv, Types, Drawn
  <2>3. QED
    BY <2>2 DEF Noted, Alike
<1>4. CASE e.size = 0
  BY <1>4, KeptNoted DEF TConfigure
<1>5. QED
  BY <1>1, <1>2, <1>3, <1>4

LEMMA LeftNoted ==
  ASSUME IInv, NEW e, e.type # "done", NEW v, v # "loop", Keep([app EXCEPT !.phase = v])
  PROVE  Noted(e)
<1>1. app' = [app EXCEPT !.phase = v] /\ commits' = commits
  BY DEF Keep
<1>2. Still(app)
  BY <1>1 DEF Still, IInv, Types, Typed, AppFields, Alike, Drawn
<1>3. QED
  BY <1>2 DEF Noted, Alike

LEMMA AckNoted == ASSUME IInv, NEW e, e.type # "done", XConfigure PROVE Noted(e)
<1>1. app' = [app EXCEPT !.acked = TRUE] /\ commits' = commits
  BY DEF XConfigure, Keep
<1>2. Typed(app') /\ Alike(app', app) /\ app'.inflight = app.inflight
      /\ app'.pending = app.pending /\ app'.last = app.last /\ app'.tps = app.tps
      /\ app'.phase = app.phase
  BY <1>1 DEF IInv, Types, Typed, AppFields, Alike
<1>3. Shown(app') = Shown(app)
  BY <1>2 DEF Shown
<1>4. Still(app)
  BY <1>1, <1>2, <1>3 DEF Still, IInv, Drawn, Alike
<1>5. QED
  BY <1>4 DEF Noted, Alike

LEMMA SyncedRemakes ==
  ASSUME IInv, NEW e, e.type # "done", Synced PROVE Remade(e)
<1> DEFINE b == Alloc(app)
           c == [b EXCEPT !.phase = "loop"]
<1>1. Typed(b) /\ b.allocated /\ b.gen = app.gen + 1
  BY AllocType DEF IInv, Types
<1>2. Render(c) /\ commits \in Seq(Commits)
  BY DEF Synced, IInv, Types
<1> HIDE DEF b
<1>3. Typed(c) /\ c.allocated /\ c.gen = app.gen + 1
  BY <1>1 DEF Typed, AppFields
<1> HIDE DEF c
<1>4. QED
  BY <1>2, <1>3, RenderDraws DEF Remade

LEMMA DispatchDoes ==
  ASSUME IInv, Dispatch
  PROVE  Ended(Head(wire)) \/ Noted(Head(wire)) \/ Remade(Head(wire))
<1> PICK e : e = Head(wire)
  OBVIOUS
<1> SUFFICES Ended(e) \/ Noted(e) \/ Remade(e)
  OBVIOUS
<1>1. e \in Events
  BY DoneHead DEF Dispatch, IInv, Types
<1>2. \/ e.type = "down" /\ TpDown(e)
      \/ e.type = "motion" /\ TpMotion(e)
      \/ e.type = "up" /\ TpUp(e)
      \/ e.type = "cancel" /\ TpCancel
      \/ e.type = "done" /\ FrameDone
      \/ e.type = "toplevel" /\ (TConfigure(e) \/ TConfigureUnmaps(e))
      \/ e.type = "xdg" /\ XConfigure
      \/ e.type = "sync" /\ Synced
      \/ e.type = "close" /\ TClose
  BY DEF Dispatch
<1>3. CASE e.type = "down" /\ TpDown(e)
  BY <1>3, KeptNoted, TouchNoted, Zenon DEF TpDown
<1>4. CASE \/ e.type = "motion" /\ TpMotion(e)
           \/ e.type = "up" /\ TpUp(e)
           \/ e.type = "cancel" /\ TpCancel
  BY <1>4, TouchNoted DEF TpMotion, TpUp, TpCancel
<1>5. CASE e.type = "done" /\ FrameDone
  BY <1>5, FrameDoneEnds
<1>6. CASE e.type = "toplevel" /\ TConfigure(e)
  BY <1>1, <1>6, ConfigureDoes
<1>7. CASE e.type = "toplevel" /\ TConfigureUnmaps(e)
  BY <1>7, LeftNoted DEF TConfigureUnmaps
<1>8. CASE e.type = "xdg" /\ XConfigure
  BY <1>8, AckNoted DEF XConfigure
<1>9. CASE e.type = "sync" /\ Synced
  BY <1>9, SyncedRemakes
<1>10. CASE e.type = "close" /\ TClose
  BY <1>10, LeftNoted DEF TClose
<1>11. CASE e.type = "toplevel" /\ (TConfigure(e) \/ TConfigureUnmaps(e))
  BY <1>6, <1>7, <1>11
<1>12. QED
  BY <1>2, <1>3, <1>4, <1>5, <1>8, <1>9, <1>10, <1>11

LEMMA CallbacksAre == Callbacks <=> commits # <<>> \/ DoneIn(wire)
BY DEF Callbacks, DoneIn

LEMMA CallbacksWillBe == Callbacks' <=> commits' # <<>> \/ DoneIn(wire)'
BY DEF Callbacks, DoneIn

LEMMA DispatchKeeps == ASSUME IInv, Dispatch PROVE IInv'
<1> DEFINE e == Head(wire)
<1>1. /\ wire' = Tail(wire) /\ wire \in Seq(Events) /\ wire # <<>> /\ commits \in Seq(Commits)
      /\ screen' = screen
      /\ overlap' = (IF Rebuilt THEN overlap \/ Callbacks ELSE overlap /\ Callbacks')
  BY DEF Dispatch, IInv, Types
<1>2. Ended(e) \/ Noted(e) \/ Remade(e)
  BY DispatchDoes
<1>3. /\ wire' \in Seq(Events)
      /\ DoneIn(wire) <=> e.type = "done" \/ DoneIn(wire')
      /\ OneDone(wire) /\ e.type # "done" => OneDone(wire')
      /\ OneDone(wire) /\ e.type = "done" => ~DoneIn(wire')
  BY <1>1, DoneHead
<1>4. Callbacks' <=> commits' # <<>> \/ DoneIn(wire')
  BY CallbacksWillBe DEF DoneIn
<1> HIDE DEF e
<1>5. PICK c : Drew(c) \/ Still(c)
  BY <1>2 DEF Ended, Noted, Remade
<1>6. Typed(app') /\ Drawn(app') /\ commits' \in Seq(Commits)
  BY <1>1, <1>5 DEF Drew, Still, Drawn
<1>7. Types'
  <2>1. overlap' \in BOOLEAN
    BY <1>1 DEF IInv, Types
  <2>2. screen'.buf \in Buffers
    BY <1>1 DEF IInv, Types
  <2>3. QED
    BY <1>3, <1>6, <2>1, <2>2 DEF Types, Typed
<1>8. Drawn(app)'
  BY <1>6 DEF Drawn, Shown
<1>9. Owed'
  <2>1. app'.inflight => Callbacks'
    <3>1. CASE commits' # <<>>
      BY <1>4, <3>1
    <3>2. CASE commits' = <<>>
      <4>1. Still(c)
        BY <1>1, <1>5, <3>2 DEF Drew
      <4>2. CASE Ended(e)
        <5> PICK d : Alike(d, app) /\ ~d.inflight /\ (Drew(d) \/ Still(d))
          BY <4>2 DEF Ended
        <5>1. ~Drew(d)
          BY <1>1, <3>2 DEF Drew
        <5>2. QED
          BY <5>1 DEF Still
      <4>3. CASE Noted(e)
        <5> PICK d : Alike(d, app) /\ d.inflight = app.inflight /\ (Drew(d) \/ Still(d))
          BY <4>3 DEF Noted
        <5>1. ~Drew(d)
          BY <1>1, <3>2 DEF Drew
        <5>2. app'.inflight = app.inflight /\ commits' = commits
          BY <5>1 DEF Still
        <5>3. app.inflight => DoneIn(wire)
          BY <3>2, <5>2, CallbacksAre DEF IInv, Owed
        <5>4. QED
          BY <1>3, <1>4, <4>3, <5>2, <5>3 DEF Noted
      <4>4. CASE Remade(e)
        BY <1>1, <3>2, <4>4 DEF Remade, Drew
      <4>5. QED
        BY <1>2, <4>2, <4>3, <4>4
    <3>3. QED
      BY <3>1, <3>2
  <2>2. ASSUME ~overlap'
        PROVE  IF app'.inflight
               THEN \/ Len(commits') = 1 /\ ~DoneIn(wire')
                    \/ commits' = <<>> /\ OneDone(wire')
               ELSE ~Callbacks'
    <3>1. CASE ~Callbacks'
      BY <2>1, <3>1
    <3>2. CASE Callbacks' /\ ~Rebuilt
      <4>1. ~overlap /\ app'.gen = app.gen
        BY <1>1, <2>2, <3>2 DEF IInv, Types, Rebuilt
      <4>2. CASE Ended(e)
        <5>1. e.type = "done" /\ DoneIn(wire)
          BY <1>3, <4>2 DEF Ended
        <5>2. commits = <<>> /\ OneDone(wire)
          BY <4>1, <5>1, CallbacksAre DEF IInv, Owed
        <5>3. ~DoneIn(wire')
          BY <1>3, <5>1, <5>2
        <5> PICK d : ~d.inflight /\ (Drew(d) \/ Still(d))
          BY <4>2 DEF Ended
        <5>4. ~Still(d)
          BY <1>4, <3>2, <5>2, <5>3 DEF Still
        <5>5. QED
          BY <5>2, <5>3, <5>4 DEF Drew
      <4>3. CASE Noted(e)
        <5> PICK d : /\ d.inflight = app.inflight
                     /\ (~d.inflight /\ Drew(d)) \/ Still(d)
          BY <4>3 DEF Noted
        <5>1. e.type # "done" /\ (DoneIn(wire) <=> DoneIn(wire'))
          BY <1>3, <4>3 DEF Noted
        <5>2. CASE ~d.inflight /\ Drew(d)
          <6>1. commits = <<>> /\ ~DoneIn(wire)
            BY <4>1, <5>2, CallbacksAre DEF IInv, Owed
          <6>2. QED
            BY <5>1, <5>2, <6>1 DEF Drew
        <5>3. CASE Still(d)
          <6>1. app'.inflight = app.inflight /\ commits' = commits
            BY <5>3 DEF Still
          <6>2. app.inflight
            BY <1>4, <3>2, <4>1, <5>1, <6>1, CallbacksAre DEF IInv, Owed
          <6>3. QED
            BY <1>3, <4>1, <5>1, <6>1, <6>2 DEF IInv, Owed
        <5>4. QED
          BY <5>2, <5>3
      <4>4. CASE Remade(e)
        BY <4>1, <4>4 DEF Remade, Drew, IInv, Types, Typed
      <4>5. QED
        BY <1>2, <4>2, <4>3, <4>4
    <3>3. CASE Callbacks' /\ Rebuilt
      <4>1. commits = <<>> /\ ~DoneIn(wire)
        BY <1>1, <2>2, <3>3, CallbacksAre DEF IInv, Types
      <4>2. ~DoneIn(wire')
        BY <1>3, <4>1
      <4>3. ~Still(c)
        BY <1>4, <3>3, <4>1, <4>2 DEF Still
      <4>4. QED
        BY <1>5, <4>1, <4>2, <4>3 DEF Drew
    <3>4. QED
      BY <3>1, <3>2, <3>3
  <2>3. QED
    BY <2>1, <2>2 DEF Owed, DoneIn, OneDone
<1>10. Swapped'
  <2>1. ASSUME NEW d, d.gen >= app.gen, d.gen \in Nat, Drew(d) PROVE Swapped'
    <3>1. /\ commits' # <<>> /\ app'.allocated /\ app'.gen = d.gen
          /\ app'.cur = 1 - d.cur /\ d.cur \in {0, 1}
      BY <1>1, <2>1 DEF Drew
    <3>2. screen'.buf[1] <= app'.gen
      BY <1>1, <2>1, <3>1 DEF IInv, Swapped, Types, Buffers, Typed
    <3>3. Behind(commits'[Len(commits')].buf, app')
      BY <2>1, <3>1 DEF Drew, Behind
    <3>4. QED
      BY <3>1, <3>2, <3>3 DEF Swapped, Newest, Behind
  <2>2. ASSUME NEW d, Alike(d, app), Still(d) PROVE Swapped'
    <3>1. Alike(app', app) /\ commits' = commits /\ screen' = screen
      BY <1>1, <2>2 DEF Still, Alike
    <3>2. QED
      BY <3>1 DEF IInv, Swapped, Newest, Behind, Alike
  <2>3. ASSUME NEW d, Alike(d, app) \/ d.gen = app.gen + 1 PROVE d.gen >= app.gen /\ d.gen \in Nat
    BY <2>3 DEF Alike, IInv, Types, Typed
  <2>4. QED
    BY <1>2, <2>1, <2>2, <2>3, Zenon DEF Ended, Noted, Remade
<1>11. QED
  BY <1>7, <1>8, <1>9, <1>10 DEF IInv

-----------------------------------------------------------------------------
(* Events that announce no frame leave the invariant alone.                  *)
LEMMA Announced ==
  ASSUME IInv, NEW v \in Seq(Events), ~DoneIn(v), wire' = wire \o v,
         UNCHANGED <<app, commits, screen, overlap>>
  PROVE  IInv'
<1>1. /\ wire' \in Seq(Events)
      /\ DoneIn(wire') <=> DoneIn(wire)
      /\ OneDone(wire) => OneDone(wire')
  BY DoneAfter DEF IInv, Types
<1>2. Callbacks' <=> Callbacks
  BY <1>1, CallbacksAre, CallbacksWillBe DEF DoneIn
<1>3. Types' /\ Drawn(app)' /\ Swapped'
  BY <1>1 DEF IInv, Types, Typed, Drawn, Shown, Swapped, Newest, Behind
<1>4. Owed'
  BY <1>1, <1>2 DEF IInv, Owed, DoneIn, OneDone
<1>5. QED
  BY <1>3, <1>4 DEF IInv

LEMMA ConfigureKeeps == ASSUME IInv, NEW s \in Sizes, Configure(s) PROVE IInv'
<1> DEFINE v == Configured(s)
<1>1. [type |-> "toplevel", size |-> s] \in Events /\ [type |-> "xdg"] \in Events
  BY DEF Events
<1>2. v \in Seq(Events) /\ ~DoneIn(v)
  BY <1>1 DEF Configured, DoneIn
<1>3. wire' = wire \o v /\ UNCHANGED <<app, commits, screen, overlap>>
  BY DEF Configure, Env
<1>4. QED
  BY <1>2, <1>3, Announced

LEMMA EndingKeeps == ASSUME IInv, Cancel \/ Close PROVE IInv'
<1> PICK e \in {[type |-> "cancel"], [type |-> "close"]} :
      wire' = Append(wire, e) /\ UNCHANGED <<app, commits, screen, overlap>>
  BY DEF Cancel, Close, Env
<1>1. e \in Events /\ e.type # "done"
  BY DEF Events
<1>2. <<e>> \in Seq(Events) /\ ~DoneIn(<<e>>)
  BY <1>1 DEF DoneIn
<1>3. wire' = wire \o <<e>>
  BY <1>1 DEF IInv, Types
<1>4. QED
  BY <1>2, <1>3, Announced

LEMMA TouchesKeep == ASSUME IInv, Touches PROVE IInv'
<1> PICK f \in Stream!Frames : \E ids \in Ascending(DOMAIN f) :
      wire' = wire \o [k \in DOMAIN ids |-> TouchEvent(ids[k], f[ids[k]])]
  BY DEF Touches
<1> PICK ids \in Ascending(DOMAIN f) :
      wire' = wire \o [k \in DOMAIN ids |-> TouchEvent(ids[k], f[ids[k]])]
  OBVIOUS
<1> DEFINE v == [k \in DOMAIN ids |-> TouchEvent(ids[k], f[ids[k]])]
<1>1. DOMAIN f \subseteq Ids /\ \A i \in DOMAIN f : f[i] \in Stream!Request
  BY DEF Stream!Frames
<1>2. Cardinality(DOMAIN f) \in Nat
  BY <1>1, CanvasAssumption, FS_Subset, FS_CardinalityType
<1>3. DOMAIN ids = 1 .. Cardinality(DOMAIN f) /\ \A k \in DOMAIN ids : ids[k] \in DOMAIN f
  BY DEF Ascending
<1>4. ASSUME NEW k \in DOMAIN ids PROVE v[k] \in Events /\ v[k].type # "done"
  <2>1. ids[k] \in Ids /\ f[ids[k]] \in Stream!Request
    BY <1>1, <1>3
  <2>2. v[k] = TouchEvent(ids[k], f[ids[k]])
    OBVIOUS
  <2>3. QED
    BY <2>1, <2>2 DEF TouchEvent, Events, Stream!Request
<1>5. DOMAIN v = 1 .. Cardinality(DOMAIN f)
  BY <1>3
<1>6. wire' = wire \o v
  OBVIOUS
<1>7. UNCHANGED <<app, commits, screen, overlap>>
  BY DEF Touches, Env
<1> HIDE DEF v
<1>8. v \in Seq(Events)
  <2>1. v \in [1 .. Cardinality(DOMAIN f) -> Events]
    BY <1>3, <1>4 DEF v
  <2>2. QED
    BY <1>2, <2>1
<1>9. ~DoneIn(v)
  BY <1>3, <1>4, <1>5 DEF DoneIn
<1>10. QED
  BY <1>6, <1>7, <1>8, <1>9, Announced

LEMMA PresentKeeps == ASSUME IInv, Present PROVE IInv'
<1> DEFINE v == [i \in DOMAIN commits |-> [type |-> "done"]]
           n == Len(commits)
           m == Len(wire)
<1>1. /\ commits # <<>> /\ commits' = <<>> /\ wire' = wire \o v /\ UNCHANGED <<app, overlap>>
      /\ screen'.buf = Last(commits).buf
  BY DEF Present, Env
<1>2. /\ commits \in Seq(Commits) /\ n \in Nat /\ n > 0 /\ DOMAIN commits = 1 .. n
      /\ Last(commits) = commits[n] /\ commits[n] \in Commits
  BY <1>1 DEF IInv, Types, Last
<1>3. v \in Seq(Events) /\ Len(v) = n /\ \A i \in 1 .. n : v[i] = [type |-> "done"]
  BY <1>2 DEF Events
<1>4. wire \in Seq(Events) /\ m \in Nat /\ DOMAIN wire = 1 .. m
  BY DEF IInv, Types
<1> HIDE DEF v
<1>5. /\ wire' \in Seq(Events) /\ DOMAIN wire' = 1 .. m + n
      /\ \A i \in 1 .. m : wire'[i] = wire[i]
      /\ \A i \in m + 1 .. m + n : wire'[i].type = "done"
  <2>1. wire' \in Seq(Events) /\ Len(wire') = m + n
    <3>1. wire' \in Seq(Events)
      BY <1>1, <1>3, <1>4
    <3>2. Len(wire \o v) = Len(wire) + Len(v)
      BY <1>3, <1>4
    <3>3. QED
      BY <1>1, <1>3, <3>1, <3>2
  <2>2. \A i \in 1 .. m : wire'[i] = wire[i]
    BY <1>1, <1>3, <1>4
  <2>3. ASSUME NEW i \in m + 1 .. m + n PROVE wire'[i].type = "done"
    <3>1. i - m \in 1 .. n /\ wire'[i] = v[i - m]
      BY <1>1, <1>2, <1>3, <1>4
    <3>2. QED
      BY <1>3, <3>1
  <2>4. QED
    BY <2>1, <2>2, <2>3
<1> HIDE DEF n, m
<1>6. DoneIn(wire')
  BY <1>2, <1>4, <1>5 DEF DoneIn
<1>7. Types' /\ Drawn(app)'
  <2>1. screen'.buf \in Buffers
    BY <1>1, <1>2 DEF Commits
  <2>2. QED
    BY <1>1, <1>5, <2>1 DEF IInv, Types, Typed, Drawn, Shown
<1>8. Swapped'
  <2>1. Newest = commits[n] .buf
    BY <1>1 DEF Newest, n
  <2>2. app.allocated /\ Behind(commits[n].buf, app)
    BY <1>1, <2>1 DEF IInv, Swapped, Types, Typed
  <2>3. commits[n].buf[1] <= app.gen
    BY <1>2, <2>2 DEF Behind, Commits, Buffers, IInv, Types, Typed
  <2>4. QED
    BY <1>1, <1>2, <2>2, <2>3 DEF Swapped, Newest, Behind
<1>9. Owed'
  <2>1. Callbacks'
    BY <1>6, CallbacksWillBe DEF DoneIn
  <2>2. Callbacks
    BY <1>1 DEF Callbacks
  <2>3. ASSUME ~overlap PROVE app.inflight /\ OneDone(wire')
    <3>1. app.inflight /\ n = 1 /\ ~DoneIn(wire)
      BY <1>1, <2>2, <2>3 DEF IInv, Owed, n
    <3>2. \A i \in 1 .. m : wire'[i].type # "done"
      BY <1>4, <1>5, <3>1 DEF DoneIn
    <3>3. \A j \in 1 .. m + 1 : wire'[j].type = "done" => j = m + 1
      BY <1>4, <3>2
    <3>4. m + 1 \in 1 .. m + 1 /\ wire'[m + 1].type = "done"
      BY <1>4, <1>5, <3>1
    <3>5. QED
      BY <1>5, <3>1, <3>3, <3>4 DEF OneDone
  <2>4. QED
    BY <1>1, <2>1, <2>3 DEF Owed, OneDone
<1>10. QED
  BY <1>7, <1>8, <1>9 DEF IInv

LEMMA Initially == Init => IInv
<1> SUFFICES ASSUME Init PROVE IInv
  OBVIOUS
<1>1. wire \in Seq(Events) /\ ~DoneIn(wire)
  <2>1. [type |-> "sync"] \in Events /\ [type |-> "xdg"] \in Events
        /\ \A s \in Sizes : [type |-> "toplevel", size |-> s] \in Events
    BY DEF Events
  <2>2. CASE wire = <<[type |-> "sync"]>>
    BY <2>1, <2>2 DEF DoneIn
  <2>3. CASE \E s \in Sizes : wire = Configured(s) \o <<[type |-> "sync"]>>
    <3> PICK s \in Sizes : wire = Configured(s) \o <<[type |-> "sync"]>>
      BY <2>3
    <3> DEFINE a == Configured(s)
               b == <<[type |-> "sync"]>>
    <3>1. a \in Seq(Events) /\ b \in Seq(Events) /\ ~DoneIn(a) /\ ~DoneIn(b)
      BY <2>1 DEF Configured, DoneIn
    <3>2. wire = a \o b
      OBVIOUS
    <3> HIDE DEF a, b
    <3>3. QED
      BY <3>1, <3>2, DoneAfter
  <2>4. QED
    BY <2>2, <2>3 DEF Init
<1>2. commits = <<>> /\ screen.buf = <<0, 0>> /\ overlap = FALSE
  BY DEF Init
<1>3. Typed(app) /\ app.phase = "roundtrip" /\ ~app.inflight /\ ~app.allocated
  BY CanvasAssumption DEF Init, Typed, AppFields
<1>4. Types /\ Drawn(app) /\ Swapped
  <2>1. Types
    <3>1. <<0, 0>> \in Buffers
      BY DEF Buffers
    <3>2. commits \in Seq(Commits)
      BY <1>2
    <3>3. QED
      BY <1>1, <1>2, <1>3, <3>1, <3>2 DEF Types
  <2>2. Drawn(app)
    BY <1>3 DEF Drawn
  <2>3. Swapped
    BY <1>2, <1>3 DEF Swapped, Typed
  <2>4. QED
    BY <2>1, <2>2, <2>3
<1>5. Owed
  BY <1>1, <1>2, <1>3, CallbacksAre DEF Owed
<1>6. QED
  BY <1>4, <1>5 DEF IInv

LEMMA Invariant == Spec => []IInv
<1>1. IInv /\ UNCHANGED vars => IInv'
  <2> SUFFICES ASSUME IInv, UNCHANGED vars PROVE IInv'
    OBVIOUS
  <2>1. UNCHANGED <<app, wire, commits, screen, overlap>>
    BY DEF vars
  <2>2. QED
    BY <2>1 DEF IInv, Types, Typed, Drawn, Shown, Owed, Callbacks, DoneIn, OneDone,
                Swapped, Newest, Behind
<1>2. IInv /\ [Next]_vars => IInv'
  BY <1>1, DispatchKeeps, ConfigureKeeps, PresentKeeps, TouchesKeep, EndingKeeps, Zenon DEF Next
<1>3. QED
  BY Initially, <1>2, PTL DEF Spec

(* Whenever no frame is in flight the last commit shows every circle: what   *)
(* touches, cancels and resizes change during a frame is drawn after it      *)
(* (touchtest.c, schedule() and frame_done()).                               *)
THEOREM TouchesDrawn == Spec => []NothingForgotten
<1>1. IInv => NothingForgotten
  BY DEF IInv, Types, Typed, Drawn, NothingForgotten, Loop
<1>2. QED
  BY Invariant, <1>1, PTL

(* A frame in flight has its callback coming, so the canvas never waits for  *)
(* nothing, however buffers are rebuilt meanwhile.                           *)
THEOREM CallbackComes == Spec => []NoLostFrame
<1>1. IInv => NoLostFrame
  BY DEF IInv, Owed, NoLostFrame
<1>2. QED
  BY Invariant, <1>1, PTL

(* touchtest never draws into a buffer that is on the screen or waiting for  *)
(* it, but in the wake of a rebuilding during a frame.                       *)
THEOREM FreeBuffer == Spec => []DrawsFree
<1>1. ASSUME IInv PROVE DrawsFree
  <2> SUFFICES ASSUME Loop, ~app.inflight, ~overlap PROVE ~InUse(<<app.gen, app.cur>>)
    BY DEF DrawsFree
  <2>1. commits = <<>> /\ app.allocated
    BY <1>1 DEF IInv, Owed, Callbacks, Drawn, Loop
  <2>2. Behind(screen.buf, app)
    BY <1>1, <2>1 DEF IInv, Swapped, Newest
  <2>3. screen.buf # <<app.gen, app.cur>>
    BY <1>1, <2>2 DEF Behind, IInv, Types, Typed, Buffers
  <2>4. QED
    BY <2>1, <2>3 DEF InUse
<1>2. QED
  BY Invariant, <1>1, PTL

-----------------------------------------------------------------------------
(* What the client has heard of the touch points, and has yet to hear.       *)
View == [Ids -> Points \cup {NoTouch}]

Hear(v, e) == CASE e.type \in {"down", "motion"} -> [v EXCEPT ![e.id] = e.at]
                [] e.type = "up"                 -> [v EXCEPT ![e.id] = NoTouch]
                [] e.type = "cancel"             -> [i \in Ids |-> NoTouch]
                [] OTHER                         -> v

Due(v, e) == /\ e.type = "down" => v[e.id] = NoTouch
             /\ e.type \in {"motion", "up"} => v[e.id] # NoTouch

(* The events of w, heard one after the other, lead from v to u.             *)
Path(h, w)     == \A i \in 1 .. Len(w) : Due(h[i - 1], w[i]) /\ h[i] = Hear(h[i - 1], w[i])
Leads(v, w, u) == \E h \in [0 .. Len(w) -> View] : h[0] = v /\ h[Len(w)] = u /\ Path(h, w)

LEMMA HearType == ASSUME NEW v \in View, NEW e \in Events PROVE Hear(v, e) \in View
<1>1. CASE e.type \in {"down", "motion"}
  <2>1. e.id \in Ids /\ e.at \in Points /\ Hear(v, e) = [v EXCEPT ![e.id] = e.at]
    BY <1>1 DEF Events, Hear
  <2>2. QED
    BY <2>1 DEF View
<1>2. CASE e.type = "up"
  <2>1. Hear(v, e) = [v EXCEPT ![e.id] = NoTouch]
    BY <1>2 DEF Hear
  <2>2. QED
    BY <2>1 DEF View
<1>3. CASE e.type \notin {"down", "motion", "up"}
  BY <1>3 DEF Hear, View
<1>4. QED
  BY <1>1, <1>2, <1>3

LEMMA LeadsNothing == \A v, u \in View : Leads(v, <<>>, u) <=> v = u
<1> SUFFICES ASSUME NEW v \in View, NEW u \in View PROVE Leads(v, <<>>, u) <=> v = u
  OBVIOUS
<1>1. Leads(v, <<>>, u) => v = u
  BY DEF Leads
<1>2. ASSUME v = u PROVE Leads(v, <<>>, u)
  <2> DEFINE h == [i \in 0 .. 0 |-> v]
  <2>1. h \in [0 .. Len(<<>>) -> View] /\ h[0] = v /\ h[Len(<<>>)] = u /\ Path(h, <<>>)
    BY <1>2 DEF Path
  <2>2. QED
    BY <2>1, Zenon DEF Leads
<1>3. QED
  BY <1>1, <1>2

LEMMA LeadsBoth ==
  ASSUME NEW w \in Seq(Events), NEW x \in Seq(Events), NEW v, NEW u, NEW t,
         Leads(v, w, u), Leads(u, x, t)
  PROVE  Leads(v, w \o x, t)
<1> DEFINE n == Len(w)
           m == Len(x)
           y == w \o x
<1>1. PICK g \in [0 .. n -> View] : g[0] = v /\ g[n] = u /\ Path(g, w)
  BY DEF Leads
<1>2. PICK h \in [0 .. m -> View] : h[0] = u /\ h[m] = t /\ Path(h, x)
  BY DEF Leads
<1>3. /\ n \in Nat /\ m \in Nat /\ Len(y) = n + m
      /\ \A i \in 1 .. n : y[i] = w[i]
      /\ \A i \in 1 .. m : y[n + i] = x[i]
  OBVIOUS
<1>4. Path(g, w) <=> \A i \in 1 .. n : Due(g[i - 1], w[i]) /\ g[i] = Hear(g[i - 1], w[i])
  BY DEF Path
<1>5. Path(h, x) <=> \A i \in 1 .. m : Due(h[i - 1], x[i]) /\ h[i] = Hear(h[i - 1], x[i])
  BY DEF Path
<1> HIDE DEF n, m, y
<1> DEFINE f == [i \in 0 .. n + m |-> IF i <= n THEN g[i] ELSE h[i - n]]
<1>6. /\ \A i \in 0 .. n : f[i] = g[i]
      /\ \A i \in 0 .. m : f[n + i] = h[i]
  <2>1. \A i \in 0 .. n : f[i] = g[i]
    BY <1>3
  <2>2. ASSUME NEW i \in 0 .. m PROVE f[n + i] = h[i]
    <3>1. CASE i = 0
      BY <1>1, <1>2, <1>3, <3>1
    <3>2. CASE i # 0
      <4>1. n + i \in 0 .. n + m /\ ~(n + i <= n) /\ (n + i) - n = i
        BY <1>3, <3>2
      <4>2. QED
        BY <4>1
    <3>3. QED
      BY <3>1, <3>2
  <2>3. QED
    BY <2>1, <2>2
<1>7. f \in [0 .. n + m -> View]
  <2>1. ASSUME NEW i \in 0 .. n + m PROVE f[i] \in View
    <3>1. i <= n => i \in 0 .. n
      BY <1>3
    <3>2. ~(i <= n) => i - n \in 0 .. m
      BY <1>3
    <3>3. QED
      BY <1>1, <1>2, <3>1, <3>2
  <2>2. QED
    BY <2>1
<1>8. f[0] = v /\ f[n + m] = t
  <2>1. 0 \in 0 .. n /\ m \in 0 .. m
    BY <1>3
  <2>2. QED
    BY <1>1, <1>2, <1>6, <2>1
<1> HIDE DEF f
<1>9. ASSUME NEW i \in 1 .. n + m PROVE Due(f[i - 1], y[i]) /\ f[i] = Hear(f[i - 1], y[i])
  <2>1. CASE i <= n
    <3>1. i \in 1 .. n /\ i \in 0 .. n /\ i - 1 \in 0 .. n
      BY <1>3, <2>1
    <3>2. f[i] = g[i] /\ f[i - 1] = g[i - 1] /\ y[i] = w[i]
      BY <1>3, <1>6, <3>1
    <3>3. QED
      BY <1>1, <1>4, <3>1, <3>2, Zenon
  <2>2. CASE ~(i <= n)
    <3>1. PICK j \in 1 .. m : i = n + j
      <4>1. i - n \in 1 .. m /\ i = n + (i - n)
        BY <1>3, <2>2
      <4>2. QED
        BY <4>1
    <3>2. j \in 0 .. m /\ j - 1 \in 0 .. m /\ i - 1 = n + (j - 1)
      BY <1>3, <3>1
    <3>3. f[i] = h[j] /\ f[i - 1] = h[j - 1] /\ y[i] = x[j]
      BY <1>3, <1>6, <3>1, <3>2
    <3>4. QED
      BY <1>2, <1>5, <3>1, <3>3, Zenon
  <2>3. QED
    BY <2>1, <2>2
<1>10. Leads(v, y, t)
  BY <1>3, <1>7, <1>8, <1>9, Zenon DEF Leads, Path
<1>11. QED
  BY <1>10 DEF y

LEMMA LeadsRest ==
  ASSUME NEW w \in Seq(Events), w # <<>>, NEW v, NEW u, Leads(v, w, u)
  PROVE  /\ v \in View /\ Due(v, Head(w)) /\ Hear(v, Head(w)) \in View
         /\ Leads(Hear(v, Head(w)), Tail(w), u)
<1>1. PICK h \in [0 .. Len(w) -> View] : h[0] = v /\ h[Len(w)] = u /\ Path(h, w)
  BY DEF Leads
<1> DEFINE g == [i \in 0 .. Len(w) - 1 |-> h[i + 1]]
<1>2. /\ Len(w) \in Nat \ {0} /\ Head(w) = w[1] /\ Len(Tail(w)) = Len(w) - 1
      /\ \A i \in 1 .. Len(w) - 1 : Tail(w)[i] = w[i + 1]
  OBVIOUS
<1>3. v \in View /\ Due(v, Head(w)) /\ h[1] = Hear(v, Head(w)) /\ h[1] \in View
  <2>1. 1 \in 1 .. Len(w) /\ 1 \in 0 .. Len(w) /\ 0 \in 0 .. Len(w) /\ 1 - 1 = 0
    BY <1>2
  <2>2. QED
    BY <1>1, <1>2, <2>1 DEF Path
<1>4. g \in [0 .. Len(w) - 1 -> View] /\ g[0] = h[1] /\ g[Len(w) - 1] = u
  BY <1>1, <1>2
<1>5. \A i \in 1 .. Len(w) - 1 : Due(g[i - 1], w[i + 1]) /\ g[i] = Hear(g[i - 1], w[i + 1])
  <2> TAKE i \in 1 .. Len(w) - 1
  <2>1. i + 1 \in 1 .. Len(w) /\ (i + 1) - 1 = i
    BY <1>2
  <2>2. Due(h[i], w[i + 1]) /\ h[i + 1] = Hear(h[i], w[i + 1])
    BY <1>1, <2>1 DEF Path
  <2>3. g[i] = h[i + 1] /\ g[i - 1] = h[i]
    BY <1>2
  <2>4. QED
    BY <2>2, <2>3, Zenon
<1> HIDE DEF g
<1>6. Path(g, Tail(w))
  BY <1>2, <1>5 DEF Path
<1>7. QED
  BY <1>2, <1>3, <1>4, <1>6 DEF Leads

(* Events about other things change nothing.                                 *)
Quiet(w) == \A i \in DOMAIN w : w[i].type \notin {"down", "motion", "up", "cancel"}

LEMMA QuietLeads ==
  ASSUME NEW w \in Seq(Events), Quiet(w), NEW v \in View PROVE Leads(v, w, v)
<1> DEFINE h == [i \in 0 .. Len(w) |-> v]
<1>1. Len(w) \in Nat /\ DOMAIN w = 1 .. Len(w)
  OBVIOUS
<1>2. h \in [0 .. Len(w) -> View] /\ \A i \in 0 .. Len(w) : h[i] = v
  OBVIOUS
<1> HIDE DEF h
<1>3. Path(h, w)
  <2> SUFFICES ASSUME NEW i \in 1 .. Len(w)
               PROVE  Due(h[i - 1], w[i]) /\ h[i] = Hear(h[i - 1], w[i])
    BY DEF Path
  <2>1. h[i - 1] = v /\ h[i] = v
    BY <1>1, <1>2
  <2>2. w[i].type \notin {"down", "motion", "up", "cancel"}
    BY <1>1 DEF Quiet
  <2>3. QED
    BY <2>1, <2>2 DEF Due, Hear
<1>4. h[0] = v /\ h[Len(w)] = v
  BY <1>1, <1>2
<1>5. QED
  BY <1>2, <1>3, <1>4 DEF Leads

(* A frame of touches, event by event.                                       *)
LEMMA FrameLeads ==
  ASSUME NEW f \in Stream!Frames, Stream!Legal(f), told \in View, told' = Stream!After(f),
         NEW ids \in Ascending(DOMAIN f), NEW x,
         x = [k \in DOMAIN ids |-> TouchEvent(ids[k], f[ids[k]])]
  PROVE  x \in Seq(Events) /\ told' \in View /\ Leads(told, x, told')
<1> DEFINE D == DOMAIN f
           n == Cardinality(D)
<1>1. D \subseteq Ids /\ \A i \in D : f[i].req \in {"down", "motion", "up"} /\ f[i].at \in Points
  BY DEF Stream!Frames, Stream!Request
<1>2. IsFiniteSet(D) /\ n \in Nat
  BY <1>1, CanvasAssumption, FS_Subset, FS_CardinalityType
<1>3. ids \in [1 .. n -> D] /\ \A i, j \in 1 .. n : i < j => ids[i] < ids[j]
  BY DEF Ascending
<1>4. \A i, j \in 1 .. n : ids[i] = ids[j] => i = j
  <2> SUFFICES ASSUME NEW i \in 1 .. n, NEW j \in 1 .. n, ids[i] = ids[j], i # j PROVE FALSE
    OBVIOUS
  <2>1. ids[i] \in Nat /\ ids[j] \in Nat
    BY <1>1, <1>3, CanvasAssumption
  <2>2. i < j \/ j < i
    BY <1>2
  <2>3. QED
    BY <1>3, <2>1, <2>2
<1>5. \A id \in D : \E k \in 1 .. n : ids[k] = id
  <2>1. ids \in Injection(1 .. n, D)
    BY <1>3, <1>4 DEF Injection, IsInjective
  <2>2. Cardinality(1 .. n) = n
    <3>1. 1 \in Int /\ n \in Int
      BY <1>2
    <3>2. Cardinality(1 .. n) = IF 1 > n THEN 0 ELSE n - 1 + 1
      BY <3>1, FS_Interval
    <3>3. QED
      BY <1>2, <3>2
  <2>3. ids \in Surjection(1 .. n, D)
    BY <1>2, <2>1, <2>2, FS_Injection
  <2>4. QED
    BY <2>3 DEF Surjection
<1>6. x = [k \in 1 .. n |-> TouchEvent(ids[k], f[ids[k]])]
  BY <1>3
<1>7. ASSUME NEW k \in 1 .. n
      PROVE  /\ x[k] \in Events /\ x[k].type = f[ids[k]].req /\ x[k].id = ids[k]
             /\ f[ids[k]].req # "up" => x[k].at = f[ids[k]].at
  <2>1. ids[k] \in D /\ x[k] = TouchEvent(ids[k], f[ids[k]])
    BY <1>3, <1>6
  <2>2. ids[k] \in Ids /\ f[ids[k]].req \in {"down", "motion", "up"} /\ f[ids[k]].at \in Points
    BY <1>1, <2>1
  <2>3. QED
    BY <2>1, <2>2 DEF TouchEvent, Events
<1>8. x \in Seq(Events) /\ Len(x) = n
  <2>1. x \in [1 .. n -> Events]
    BY <1>6, <1>7
  <2>2. QED
    BY <1>2, <2>1
<1> DEFINE By(k) == {ids[j] : j \in 1 .. k}
           h == [k \in 0 .. n |-> [i \in Ids |-> IF i \in By(k) THEN told'[i] ELSE told[i]]]
<1>9. /\ told' \in View
      /\ \A i \in Ids : told'[i] = IF i \notin D THEN told[i]
                                   ELSE IF f[i].req = "up" THEN NoTouch ELSE f[i].at
  <2>1. told' = [i \in Ids |-> IF i \notin D THEN told[i]
                               ELSE IF f[i].req = "up" THEN NoTouch ELSE f[i].at]
    BY DEF Stream!After
  <2>2. QED
    BY <1>1, <2>1 DEF View
<1>10. h \in [0 .. n -> View]
  BY <1>9 DEF View
<1>11. h[0] = told
  BY <1>2 DEF View
<1>12. h[n] = told'
  <2>1. \A i \in Ids : i \notin By(n) => told'[i] = told[i]
    BY <1>5, <1>9
  <2>2. h[n] = [i \in Ids |-> told'[i]]
    BY <1>2, <2>1
  <2>3. QED
    BY <1>9, <2>2 DEF View
<1>13. ASSUME NEW k \in 1 .. n PROVE Due(h[k - 1], x[k]) /\ h[k] = Hear(h[k - 1], x[k])
  <2> DEFINE id == ids[k]
             v == h[k - 1]
  <2>1. id \in D /\ id \in Ids /\ k - 1 \in 0 .. n /\ k \in 0 .. n
    BY <1>1, <1>2, <1>3
  <2>2. id \notin By(k - 1)
    <3> SUFFICES ASSUME NEW j \in 1 .. k - 1, ids[j] = ids[k] PROVE FALSE
      OBVIOUS
    <3>1. j \in 1 .. n /\ j # k
      BY <1>2
    <3>2. QED
      BY <1>4, <3>1
  <2>3. By(k) = By(k - 1) \cup {id}
    <3>1. 1 .. k = (1 .. k - 1) \cup {k}
      BY <1>2
    <3>2. QED
      BY <3>1
  <2> HIDE DEF By
  <2>4. /\ v \in View /\ v[id] = told[id] /\ h[k][id] = told'[id]
        /\ \A i \in Ids \ {id} : h[k][i] = v[i]
    BY <1>10, <2>1, <2>2, <2>3
  <2>5. h[k] = [v EXCEPT ![id] = told'[id]]
    <3>1. h[k] \in View
      BY <1>10, <2>1
    <3> HIDE DEF h
    <3>2. QED
      BY <2>1, <2>4, <3>1 DEF View
  <2> HIDE DEF h
  <2>6. (f[id].req = "down") <=> (told[id] = NoTouch)
    BY <2>1 DEF Stream!Legal
  <2>7. f[id].req \in {"down", "motion", "up"}
    BY <1>1, <2>1
  <2>8. x[k].type = f[id].req /\ x[k].id = id /\ (f[id].req # "up" => x[k].at = f[id].at)
    BY <1>7
  <2>9. told'[id] = IF f[id].req = "up" THEN NoTouch ELSE f[id].at
    BY <1>9, <2>1
  <2> HIDE DEF id, v
  <2>10. Due(v, x[k])
    BY <2>4, <2>6, <2>7, <2>8 DEF Due
  <2>11. Hear(v, x[k]) = [v EXCEPT ![id] = told'[id]]
    BY <2>7, <2>8, <2>9 DEF Hear
  <2>12. QED
    BY <2>5, <2>10, <2>11 DEF v
<1> HIDE DEF h, n
<1>14. Path(h, x)
  BY <1>8, <1>13 DEF Path
<1>15. QED
  BY <1>8, <1>9, <1>10, <1>11, <1>12, <1>14 DEF Leads

-----------------------------------------------------------------------------
(* The circles show what the client has heard, but for the fingers missed.   *)
Touching == [id : Ids, at : Points]
Matches(tps, ms, v) ==
  /\ tps \in [Circles -> Touching \cup {Free}]
  /\ ms \subseteq Ids /\ \A i \in ms : v[i] # NoTouch
  /\ \A k \in Circles : tps[k] # Free => tps[k].id \notin ms /\ v[tps[k].id] = tps[k].at
  /\ \A i \in Ids \ ms : v[i] # NoTouch => \E k \in Circles : tps[k] # Free /\ tps[k].id = i

Changed(tps, S, tp) == [k \in Circles |-> IF k \in S THEN tp ELSE tps[k]]

LEMMA TouchingNotFree == \A tp \in Touching : tp # Free /\ tp.at # NoTouch
BY CanvasAssumption DEF Touching, Free

LEMMA DownMatches ==
  ASSUME NEW tps, NEW ms, NEW v \in View, Matches(tps, ms, v), NEW id \in Ids, NEW at \in Points,
         v[id] = NoTouch, NEW i \in Circles, tps[i] = Free
  PROVE  Matches(Changed(tps, {i}, [id |-> id, at |-> at]), ms, [v EXCEPT ![id] = at])
<1> DEFINE tp == [id |-> id, at |-> at]
           new == Changed(tps, {i}, tp)
           u == [v EXCEPT ![id] = at]
<1>1. tp \in Touching /\ tp.id = id /\ tp.at = at /\ tp # Free
  BY TouchingNotFree DEF Touching
<1>2. u[id] = at /\ at # NoTouch /\ \A j \in Ids : j # id => u[j] = v[j]
  BY CanvasAssumption DEF View
<1>3. new[i] = tp /\ \A k \in Circles : k # i => new[k] = tps[k]
  BY DEF Changed
<1>4. new \in [Circles -> Touching \cup {Free}]
  BY <1>1 DEF Changed, Matches
<1>5. id \notin ms
  BY DEF Matches
<1>6. \A k \in Circles : tps[k] # Free => tps[k] \in Touching /\ tps[k].id # id
  <2> SUFFICES ASSUME NEW k \in Circles, tps[k] # Free
               PROVE  tps[k] \in Touching /\ tps[k].id # id
    OBVIOUS
  <2>1. tps[k] \in Touching
    BY DEF Matches
  <2>2. QED
    BY <2>1, TouchingNotFree DEF Matches
<1> HIDE DEF new, u, tp
<1>7. \A j \in ms : u[j] # NoTouch
  BY <1>2, <1>5 DEF Matches
<1>8. ASSUME NEW k \in Circles, new[k] # Free PROVE new[k].id \notin ms /\ u[new[k].id] = new[k].at
  <2>1. CASE k = i
    BY <1>1, <1>2, <1>3, <1>5, <2>1
  <2>2. CASE k # i
    <3>1. new[k] = tps[k] /\ tps[k] \in Touching /\ tps[k].id # id
      BY <1>3, <1>6, <1>8, <2>2
    <3>2. tps[k].id \in Ids
      BY <3>1 DEF Touching
    <3>3. QED
      BY <1>2, <1>8, <3>1, <3>2 DEF Matches
  <2>3. QED
    BY <2>1, <2>2
<1>9. ASSUME NEW j \in Ids \ ms, u[j] # NoTouch
      PROVE  \E k \in Circles : new[k] # Free /\ new[k].id = j
  <2>1. CASE j = id
    BY <1>1, <1>3, <2>1
  <2>2. CASE j # id
    <3> PICK k \in Circles : tps[k] # Free /\ tps[k].id = j
      BY <1>2, <1>9, <2>2 DEF Matches
    <3>1. k # i
      OBVIOUS
    <3>2. QED
      BY <1>3, <3>1
  <2>3. QED
    BY <2>1, <2>2
<1>10. Matches(new, ms, u)
  <2>1. ms \subseteq Ids
    BY DEF Matches
  <2>2. QED
    BY <1>4, <1>7, <1>8, <1>9, <2>1 DEF Matches
<1>11. QED
  BY <1>10 DEF new, u, tp

LEMMA MissedMatches ==
  ASSUME NEW tps, NEW ms, NEW v \in View, Matches(tps, ms, v), NEW id \in Ids, NEW at \in Points,
         v[id] = NoTouch
  PROVE  Matches(tps, ms \cup {id}, [v EXCEPT ![id] = at])
<1> DEFINE u == [v EXCEPT ![id] = at]
<1>1. u[id] = at /\ at # NoTouch /\ \A j \in Ids : j # id => u[j] = v[j]
  BY CanvasAssumption DEF View
<1> HIDE DEF u
<1>2. ASSUME NEW k \in Circles, tps[k] # Free
      PROVE  tps[k].id \notin ms \cup {id} /\ u[tps[k].id] = tps[k].at
  <2>1. tps[k] \in Touching
    BY <1>2 DEF Matches
  <2>2. tps[k].id \in Ids /\ tps[k].id # id
    <3>1. v[tps[k].id] = tps[k].at /\ tps[k].at # NoTouch
      BY <1>2, <2>1, TouchingNotFree DEF Matches
    <3>2. QED
      BY <2>1, <3>1 DEF Touching
  <2>3. QED
    BY <1>1, <1>2, <2>2 DEF Matches
<1>3. \A j \in Ids \ (ms \cup {id}) :
        u[j] # NoTouch => \E k \in Circles : tps[k] # Free /\ tps[k].id = j
  BY <1>1 DEF Matches
<1>4. \A j \in ms \cup {id} : u[j] # NoTouch
  BY <1>1 DEF Matches
<1>5. Matches(tps, ms \cup {id}, u)
  BY <1>2, <1>3, <1>4 DEF Matches
<1>6. QED
  BY <1>5 DEF u

Held(tps, id) == {i \in Circles : tps[i] # Free /\ tps[i].id = id}

LEMMA MotionMatches ==
  ASSUME NEW tps, NEW ms, NEW v \in View, Matches(tps, ms, v), NEW id \in Ids, NEW at \in Points,
         v[id] # NoTouch
  PROVE  Matches(Changed(tps, Held(tps, id), [id |-> id, at |-> at]), ms, [v EXCEPT ![id] = at])
<1> DEFINE tp == [id |-> id, at |-> at]
           new == Changed(tps, Held(tps, id), tp)
           u == [v EXCEPT ![id] = at]
<1>1. tp \in Touching /\ tp.id = id /\ tp.at = at /\ tp # Free
  BY TouchingNotFree DEF Touching
<1>2. u[id] = at /\ at # NoTouch /\ \A j \in Ids : j # id => u[j] = v[j]
  BY CanvasAssumption DEF View
<1>3. \A k \in Circles : new[k] = IF tps[k] # Free /\ tps[k].id = id THEN tp ELSE tps[k]
  BY DEF Changed, Held
<1>4. new \in [Circles -> Touching \cup {Free}]
  BY <1>1 DEF Changed, Matches
<1> HIDE DEF new, u, tp
<1>5. \A j \in ms : u[j] # NoTouch
  BY <1>2 DEF Matches
<1>6. ASSUME NEW k \in Circles, new[k] # Free PROVE new[k].id \notin ms /\ u[new[k].id] = new[k].at
  <2>1. CASE tps[k] # Free /\ tps[k].id = id
    BY <1>1, <1>2, <1>3, <2>1 DEF Matches
  <2>2. CASE ~(tps[k] # Free /\ tps[k].id = id)
    <3>1. new[k] = tps[k] /\ tps[k] # Free /\ tps[k].id # id
      BY <1>3, <1>6, <2>2
    <3>2. tps[k].id \in Ids
      BY <3>1 DEF Touching, Matches
    <3>3. QED
      BY <1>2, <3>1, <3>2 DEF Matches
  <2>3. QED
    BY <2>1, <2>2
<1>7. ASSUME NEW j \in Ids \ ms, u[j] # NoTouch
      PROVE  \E k \in Circles : new[k] # Free /\ new[k].id = j
  <2>1. v[j] # NoTouch
    BY <1>2, <1>7
  <2> PICK k \in Circles : tps[k] # Free /\ tps[k].id = j
    BY <1>7, <2>1 DEF Matches
  <2>2. new[k] # Free /\ new[k].id = j
    BY <1>1, <1>3
  <2>3. QED
    BY <2>2
<1>8. Matches(new, ms, u)
  <2>1. ms \subseteq Ids
    BY DEF Matches
  <2>2. QED
    BY <1>4, <1>5, <1>6, <1>7, <2>1 DEF Matches
<1>9. QED
  BY <1>8 DEF new, u, tp

LEMMA UpMatches ==
  ASSUME NEW tps, NEW ms, NEW v \in View, Matches(tps, ms, v), NEW id \in Ids
  PROVE  Matches(Changed(tps, Held(tps, id), Free), ms \ {id}, [v EXCEPT ![id] = NoTouch])
<1> DEFINE new == Changed(tps, Held(tps, id), Free)
           u == [v EXCEPT ![id] = NoTouch]
<1>1. u[id] = NoTouch /\ \A j \in Ids : j # id => u[j] = v[j]
  BY DEF View
<1>2. \A k \in Circles : new[k] = IF tps[k] # Free /\ tps[k].id = id THEN Free ELSE tps[k]
  BY DEF Changed, Held
<1>3. new \in [Circles -> Touching \cup {Free}]
  BY DEF Changed, Matches
<1> HIDE DEF new, u
<1>4. \A j \in ms \ {id} : u[j] # NoTouch
  BY <1>1 DEF Matches
<1>5. ASSUME NEW k \in Circles, new[k] # Free
      PROVE  new[k].id \notin ms \ {id} /\ u[new[k].id] = new[k].at
  <2>1. new[k] = tps[k] /\ tps[k] # Free /\ tps[k].id # id
    BY <1>2, <1>5
  <2>2. tps[k].id \in Ids
    BY <2>1 DEF Touching, Matches
  <2>3. QED
    BY <1>1, <2>1, <2>2 DEF Matches
<1>6. ASSUME NEW j \in Ids \ (ms \ {id}), u[j] # NoTouch
      PROVE  \E k \in Circles : new[k] # Free /\ new[k].id = j
  <2>1. j # id /\ j \notin ms /\ v[j] # NoTouch
    BY <1>1, <1>6
  <2> PICK k \in Circles : tps[k] # Free /\ tps[k].id = j
    BY <1>6, <2>1 DEF Matches
  <2>2. new[k] = tps[k]
    BY <1>2, <2>1
  <2>3. QED
    BY <2>2
<1>7. Matches(new, ms \ {id}, u)
  <2>1. ms \ {id} \subseteq Ids
    BY DEF Matches
  <2>2. QED
    BY <1>3, <1>4, <1>5, <1>6, <2>1 DEF Matches
<1>8. QED
  BY <1>7 DEF new, u

LEMMA CancelMatches ==
  ASSUME NEW tps PROVE Matches(Changed(tps, Circles, Free), {}, [i \in Ids |-> NoTouch])
BY DEF Changed, Matches

(* Drawing and noting leave the circles alone.                               *)
LEMMA CirclesStay ==
  ASSUME NEW c, Typed(c), Render(c) \/ Schedule(c) \/ Keep(c)
  PROVE  app'.tps = c.tps
<1>1. Render(c) => app'.tps = c.tps
  BY DEF Render, Rendered, Typed, AppFields
<1>2. Keep([c EXCEPT !.pending = TRUE]) => app'.tps = c.tps
  BY DEF Keep, Typed, AppFields
<1>3. QED
  BY <1>1, <1>2 DEF Schedule, Keep

LEMMA WithCircles ==
  ASSUME NEW S, NEW tp, Typed(app)
  PROVE  Typed(With(app, S, tp)) /\ With(app, S, tp).tps = Changed(app.tps, S, tp)
BY DEF With, Typed, AppFields, Changed

LEMMA HearsOne ==
  ASSUME IInv, Dispatch, NEW v \in View, Matches(app.tps, missed, v), Due(v, Head(wire))
  PROVE  Matches(app'.tps, missed', Hear(v, Head(wire)))
<1> PICK e : e = Head(wire)
  OBVIOUS
<1> SUFFICES Matches(app'.tps, missed', Hear(v, e))
  OBVIOUS
<1>1. e \in Events /\ Due(v, e) /\ Typed(app)
  BY DoneHead DEF Dispatch, IInv, Types
<1>2. \/ e.type = "down" /\ TpDown(e)
      \/ e.type = "motion" /\ TpMotion(e)
      \/ e.type = "up" /\ TpUp(e)
      \/ e.type = "cancel" /\ TpCancel
      \/ e.type = "done" /\ FrameDone
      \/ e.type = "toplevel" /\ (TConfigure(e) \/ TConfigureUnmaps(e))
      \/ e.type = "xdg" /\ XConfigure
      \/ e.type = "sync" /\ Synced
      \/ e.type = "close" /\ TClose
  BY DEF Dispatch
<1>3. CASE e.type = "down" /\ TpDown(e)
  <2>1. e.id \in Ids /\ e.at \in Points /\ v[e.id] = NoTouch
    BY <1>1, <1>3 DEF Events, Due
  <2>2. Hear(v, e) = [v EXCEPT ![e.id] = e.at]
    BY <1>3 DEF Hear
  <2>3. CASE Keep(app) /\ missed' = missed \cup {e.id}
    <3>1. app'.tps = app.tps
      BY <2>3 DEF Keep
    <3>2. QED
      BY <2>1, <2>2, <2>3, <3>1, MissedMatches
  <2>4. CASE \E i \in FindSlot(app, e.id) :
               Schedule(With(app, {i}, [id |-> e.id, at |-> e.at])) /\ UNCHANGED missed
    <3> PICK i \in FindSlot(app, e.id) :
               Schedule(With(app, {i}, [id |-> e.id, at |-> e.at])) /\ UNCHANGED missed
      BY <2>4
    <3>1. Holding(app, e.id) = {}
      <4> SUFFICES ASSUME NEW k \in Circles, app.tps[k] # Free, app.tps[k].id = e.id PROVE FALSE
        BY DEF Holding
      <4>1. app.tps[k] \in Touching
        BY DEF Matches
      <4>2. QED
        BY <2>1, <4>1, TouchingNotFree DEF Matches
    <3>2. i \in Circles /\ app.tps[i] = Free
      BY <3>1 DEF FindSlot, Idle
    <3>3. app'.tps = Changed(app.tps, {i}, [id |-> e.id, at |-> e.at])
      BY <1>1, WithCircles, CirclesStay
    <3>4. QED
      BY <2>1, <2>2, <3>2, <3>3, DownMatches
  <2>5. QED
    BY <1>3, <2>3, <2>4 DEF TpDown
<1>4. CASE e.type = "motion" /\ TpMotion(e)
  <2>1. e.id \in Ids /\ e.at \in Points /\ v[e.id] # NoTouch
    BY <1>1, <1>4 DEF Events, Due
  <2>2. Hear(v, e) = [v EXCEPT ![e.id] = e.at]
    BY <1>4 DEF Hear
  <2>3. app'.tps = Changed(app.tps, Holding(app, e.id), [id |-> e.id, at |-> e.at])
    BY <1>1, <1>4, WithCircles, CirclesStay DEF TpMotion
  <2>4. Holding(app, e.id) = Held(app.tps, e.id)
    BY DEF Holding, Held
  <2>5. QED
    BY <1>4, <2>1, <2>2, <2>3, <2>4, MotionMatches DEF TpMotion
<1>5. CASE e.type = "up" /\ TpUp(e)
  <2>1. e.id \in Ids
    BY <1>1, <1>5 DEF Events
  <2>2. Hear(v, e) = [v EXCEPT ![e.id] = NoTouch]
    BY <1>5 DEF Hear
  <2>3. app'.tps = Changed(app.tps, Holding(app, e.id), Free)
    BY <1>1, <1>5, WithCircles, CirclesStay DEF TpUp
  <2>4. Holding(app, e.id) = Held(app.tps, e.id)
    BY DEF Holding, Held
  <2>5. QED
    BY <1>5, <2>1, <2>2, <2>3, <2>4, UpMatches DEF TpUp
<1>6. CASE e.type = "cancel" /\ TpCancel
  <2>1. Hear(v, e) = [i \in Ids |-> NoTouch]
    BY <1>6 DEF Hear
  <2>2. app'.tps = Changed(app.tps, Circles, Free)
    BY <1>1, <1>6, WithCircles, CirclesStay DEF TpCancel
  <2>3. QED
    BY <1>6, <2>1, <2>2, CancelMatches DEF TpCancel
<1>7. ASSUME e.type \notin {"down", "motion", "up", "cancel"},
             app'.tps = app.tps, UNCHANGED missed
      PROVE  Matches(app'.tps, missed', Hear(v, e))
  BY <1>7 DEF Hear
<1>8. CASE e.type = "done" /\ FrameDone
  <2> DEFINE c == [app EXCEPT !.inflight = FALSE, !.pending = FALSE]
  <2>1. Typed(c) /\ c.tps = app.tps /\ (Render(c) \/ Keep(c)) /\ UNCHANGED missed
    BY <1>1, <1>8 DEF FrameDone, Typed, AppFields
  <2> HIDE DEF c
  <2>2. QED
    BY <1>7, <1>8, <2>1, CirclesStay
<1>9. CASE e.type = "toplevel" /\ TConfigure(e)
  <2> DEFINE b == [app EXCEPT !.W = e.size]
             c == IF e.size \notin {0, app.W} THEN Alloc(b) ELSE app
  <2>1. e.size \in Nat
    BY <1>1, <1>9, CanvasAssumption DEF Events
  <2>2. Typed(b) /\ b.tps = app.tps
    BY <1>1, <2>1 DEF Typed, AppFields
  <2>3. (Schedule(c) \/ Keep(c)) /\ UNCHANGED missed
    BY <1>9 DEF TConfigure
  <2> HIDE DEF b
  <2>4. Typed(Alloc(b)) /\ Alloc(b).tps = app.tps
    BY <2>2, AllocType DEF Alloc, Typed, AppFields
  <2>5. Typed(c) /\ c.tps = app.tps
    BY <1>1, <2>4
  <2> HIDE DEF c
  <2>6. QED
    BY <1>7, <1>9, <2>3, <2>5, CirclesStay
<1>10. CASE \/ e.type = "toplevel" /\ TConfigureUnmaps(e)
            \/ e.type = "close" /\ TClose
  <2> PICK x : Keep([app EXCEPT !.phase = x]) /\ UNCHANGED missed
    BY <1>10 DEF TConfigureUnmaps, TClose
  <2>1. app'.tps = app.tps
    BY <1>1 DEF Keep, Typed, AppFields
  <2>2. QED
    BY <1>7, <1>10, <2>1
<1>11. CASE e.type = "xdg" /\ XConfigure
  <2>1. app'.tps = app.tps /\ UNCHANGED missed
    BY <1>1, <1>11 DEF XConfigure, Keep, Typed, AppFields
  <2>2. QED
    BY <1>7, <1>11, <2>1
<1>12. CASE e.type = "sync" /\ Synced
  <2> DEFINE b == Alloc(app)
             c == [b EXCEPT !.phase = "loop"]
  <2>1. Typed(b) /\ b.tps = app.tps
    BY <1>1, AllocType DEF Alloc, Typed, AppFields
  <2>2. Render(c) /\ UNCHANGED missed
    BY <1>12 DEF Synced
  <2> HIDE DEF b
  <2>3. Typed(c) /\ c.tps = app.tps
    BY <2>1 DEF Typed, AppFields
  <2> HIDE DEF c
  <2>4. QED
    BY <1>7, <1>12, <2>2, <2>3, CirclesStay
<1>13. CASE e.type = "toplevel" /\ (TConfigure(e) \/ TConfigureUnmaps(e))
  BY <1>9, <1>10, <1>13
<1>14. QED
  BY <1>2, <1>3, <1>4, <1>5, <1>6, <1>8, <1>10, <1>11, <1>12, <1>13

(* What is on its way leads from what the circles show to what was told.     *)
TouchInv ==
  /\ told \in View
  /\ \E v \in View : Leads(v, wire, told) /\ Matches(app.tps, missed, v)

LEMMA QuietConfigured ==
  \A s \in Sizes : Configured(s) \in Seq(Events) /\ Quiet(Configured(s))
<1> SUFFICES ASSUME NEW s \in Sizes
             PROVE  Configured(s) \in Seq(Events) /\ Quiet(Configured(s))
  OBVIOUS
<1>1. [type |-> "toplevel", size |-> s] \in Events /\ [type |-> "xdg"] \in Events
  BY DEF Events
<1>2. QED
  BY <1>1 DEF Configured, Quiet

LEMMA TouchInvInit == Init => TouchInv
<1> SUFFICES ASSUME Init PROVE TouchInv
  OBVIOUS
<1>1. told \in View /\ missed = {} /\ \A i \in Ids : told[i] = NoTouch
  BY DEF Init, View
<1>2. app.tps = [i \in Circles |-> Free]
  BY DEF Init
<1>3. Matches(app.tps, missed, told)
  BY <1>1, <1>2 DEF Matches
<1>4. Leads(told, wire, told)
  <2> DEFINE b == <<[type |-> "sync"]>>
  <2>1. b \in Seq(Events) /\ Quiet(b)
    <3>1. [type |-> "sync"] \in Events
      BY DEF Events
    <3>2. QED
      BY <3>1 DEF Quiet
  <2>2. CASE wire = b
    BY <1>1, <2>1, <2>2, QuietLeads
  <2>3. CASE \E s \in Sizes : wire = Configured(s) \o b
    <3> HIDE DEF b
    <3> PICK s \in Sizes : wire = Configured(s) \o b
      BY <2>3
    <3>1. Leads(told, Configured(s), told) /\ Leads(told, b, told)
      BY <1>1, <2>1, QuietConfigured, QuietLeads
    <3>2. QED
      BY <2>1, <3>1, QuietConfigured, LeadsBoth
  <2>4. QED
    BY <2>2, <2>3 DEF Init
<1>5. QED
  BY <1>1, <1>3, <1>4 DEF TouchInv

LEMMA TouchInvAfter ==
  ASSUME IInv, TouchInv, NEW x \in Seq(Events), wire' = wire \o x, told' \in View,
         Leads(told, x, told'), UNCHANGED <<app, missed>>
  PROVE  TouchInv'
<1> PICK v \in View : Leads(v, wire, told) /\ Matches(app.tps, missed, v)
  BY DEF TouchInv
<1>1. Leads(v, wire \o x, told')
  BY LeadsBoth DEF IInv, Types
<1>2. Leads(v, wire', told') /\ Matches(app'.tps, missed', v)
  BY <1>1
<1>3. QED
  BY <1>2 DEF TouchInv, Leads, Matches

LEMMA TouchInvKept == IInv /\ TouchInv /\ [Next]_vars => TouchInv'
<1> SUFFICES ASSUME IInv, TouchInv, [Next]_vars PROVE TouchInv'
  OBVIOUS
<1>1. told \in View /\ wire \in Seq(Events)
  BY DEF TouchInv, IInv, Types
<1>2. CASE Dispatch
  <2> PICK v \in View : Leads(v, wire, told) /\ Matches(app.tps, missed, v)
    BY DEF TouchInv
  <2>1. wire # <<>> /\ wire' = Tail(wire) /\ told' = told
    BY <1>2 DEF Dispatch
  <2> DEFINE u == Hear(v, Head(wire))
  <2>2. Due(v, Head(wire)) /\ u \in View /\ Leads(u, wire', told')
    BY <1>1, <2>1, LeadsRest
  <2>3. Matches(app'.tps, missed', u)
    BY <1>2, <2>2, HearsOne
  <2> HIDE DEF u
  <2>4. QED
    BY <1>1, <2>1, <2>2, <2>3 DEF TouchInv, Leads, Matches
<1>3. ASSUME NEW s \in Sizes, Configure(s) PROVE TouchInv'
  <2>1. wire' = wire \o Configured(s) /\ told' = told /\ UNCHANGED <<app, missed>>
    BY <1>3 DEF Configure, Env
  <2>2. Configured(s) \in Seq(Events) /\ Leads(told, Configured(s), told')
    BY <1>1, <2>1, QuietConfigured, QuietLeads
  <2>3. QED
    BY <1>1, <2>1, <2>2, TouchInvAfter
<1>4. CASE Present
  <2> DEFINE x == [i \in DOMAIN commits |-> [type |-> "done"]]
  <2>1. wire' = wire \o x /\ told' = told /\ UNCHANGED <<app, missed>>
    BY <1>4 DEF Present, Env
  <2>2. x \in Seq(Events) /\ Quiet(x)
    <3>1. [type |-> "done"] \in Events
      BY DEF Events
    <3>2. DOMAIN commits = 1 .. Len(commits) /\ Len(commits) \in Nat
      BY DEF IInv, Types
    <3>3. QED
      BY <3>1, <3>2 DEF Quiet
  <2> HIDE DEF x
  <2>3. Leads(told, x, told')
    BY <1>1, <2>1, <2>2, QuietLeads
  <2>4. QED
    BY <1>1, <2>1, <2>2, <2>3, TouchInvAfter
<1>5. CASE Touches
  <2> PICK f \in Stream!Frames :
        /\ Stream!Legal(f) /\ told' = Stream!After(f)
        /\ \E ids \in Ascending(DOMAIN f) :
             wire' = wire \o [k \in DOMAIN ids |-> TouchEvent(ids[k], f[ids[k]])]
    BY <1>5 DEF Touches
  <2> PICK ids \in Ascending(DOMAIN f) :
        wire' = wire \o [k \in DOMAIN ids |-> TouchEvent(ids[k], f[ids[k]])]
    OBVIOUS
  <2> DEFINE x == [k \in DOMAIN ids |-> TouchEvent(ids[k], f[ids[k]])]
  <2>1. x \in Seq(Events) /\ told' \in View /\ Leads(told, x, told')
    BY <1>1, FrameLeads
  <2>2. wire' = wire \o x /\ UNCHANGED <<app, missed>>
    BY <1>5 DEF Touches, Env
  <2> HIDE DEF x
  <2>3. QED
    BY <2>1, <2>2, TouchInvAfter
<1>6. CASE Cancel
  <2> DEFINE x == <<[type |-> "cancel"]>>
  <2>1. wire' = wire \o x /\ told' = [i \in Ids |-> NoTouch] /\ UNCHANGED <<app, missed>>
    <3>1. /\ wire' = Append(wire, [type |-> "cancel"]) /\ told' = [i \in Ids |-> NoTouch]
          /\ UNCHANGED <<app, missed>>
      BY <1>6 DEF Cancel, Env
    <3>2. QED
      BY <1>1, <3>1
  <2>2. [type |-> "cancel"] \in Events
    BY DEF Events
  <2>3. x \in Seq(Events) /\ told' \in View
    BY <2>1, <2>2 DEF View
  <2>4. Leads(told, x, told')
    <3> DEFINE h == [k \in 0 .. 1 |-> IF k = 0 THEN told ELSE told']
    <3>1. h \in [0 .. 1 -> View] /\ h[0] = told /\ h[1] = told'
      BY <1>1, <2>3
    <3> HIDE DEF h
    <3>2. Due(h[0], x[1]) /\ h[1] = Hear(h[0], x[1])
      BY <2>1, <3>1 DEF Due, Hear
    <3>3. Len(x) = 1 /\ \A i \in 1 .. 1 : i = 1 /\ i - 1 = 0
      OBVIOUS
    <3> HIDE DEF x
    <3>4. Path(h, x)
      BY <3>2, <3>3 DEF Path
    <3>5. QED
      BY <3>1, <3>3, <3>4 DEF Leads
  <2> HIDE DEF x
  <2>5. QED
    BY <2>1, <2>3, <2>4, TouchInvAfter
<1>7. CASE Close
  <2> DEFINE x == <<[type |-> "close"]>>
  <2>1. wire' = wire \o x /\ told' = told /\ UNCHANGED <<app, missed>>
    <3>1. wire' = Append(wire, [type |-> "close"]) /\ told' = told /\ UNCHANGED <<app, missed>>
      BY <1>7 DEF Close, Env
    <3>2. QED
      BY <1>1, <3>1
  <2>2. [type |-> "close"] \in Events
    BY DEF Events
  <2>3. x \in Seq(Events) /\ Quiet(x)
    BY <2>2 DEF Quiet
  <2> HIDE DEF x
  <2>4. QED
    BY <1>1, <2>1, <2>3, QuietLeads, TouchInvAfter
<1>8. CASE UNCHANGED vars
  <2>1. UNCHANGED <<told, wire, app, missed>>
    BY <1>8 DEF vars
  <2>2. QED
    BY <2>1 DEF TouchInv, Leads, Matches
<1>9. QED
  BY <1>2, <1>3, <1>4, <1>5, <1>6, <1>7, <1>8 DEF Next

(* Once all is heard, what is shown is where the fingers are.                *)
LEMMA FingersShown ==
  ASSUME TouchInv, wire = <<>> PROVE Shown(app) = Fingers
<1> PICK v \in View : Leads(v, wire, told) /\ Matches(app.tps, missed, v)
  BY DEF TouchInv
<1>1. v = told
  BY LeadsNothing DEF TouchInv
<1>2. ASSUME NEW p \in Shown(app) PROVE p \in Fingers
  <2> PICK k \in Circles : app.tps[k] # Free /\ p = app.tps[k].at
    BY <1>2 DEF Shown
  <2> DEFINE id == app.tps[k].id
  <2>1. app.tps[k] \in Touching
    BY DEF Matches
  <2>2. id \in Ids \ missed /\ told[id] = p /\ p # NoTouch
    BY <1>1, <2>1, TouchingNotFree DEF Matches, Touching
  <2>3. QED
    BY <2>2 DEF Fingers
<1>3. ASSUME NEW p \in Fingers PROVE p \in Shown(app)
  <2> PICK i \in Ids \ missed : told[i] # NoTouch /\ p = told[i]
    BY <1>3 DEF Fingers
  <2> PICK k \in Circles : app.tps[k] # Free /\ app.tps[k].id = i
    BY <1>1 DEF Matches
  <2>1. app.tps[k].at = p
    BY <1>1 DEF Matches
  <2>2. QED
    BY <2>1 DEF Shown
<1>4. QED
  BY <1>2, <1>3

-----------------------------------------------------------------------------
(* What the commits will make of the screen.  The newest commit shows the    *)
(* circles in `last` at the size of the client; where nothing is damaged the *)
(* screen shows them already, and nothing else, but for a rebuilding for the *)
(* size on the screen.                                                       *)
Damaged(cs) == UNION {cs[i].damage : i \in DOMAIN cs}

PicInv ==
  /\ screen.lit \subseteq 0 .. screen.size - 1
  /\ app.allocated =>
       /\ commits # <<>> => /\ Last(commits).size = app.W
                            /\ Last(commits).lit = Lit(app.last, app)
       /\ commits = <<>> => screen.size = app.W
       /\ screen.size = app.W =>
            /\ Lit(app.last, app) \ Damaged(commits) \subseteq screen.lit
            /\ ~back => screen.lit \ Damaged(commits) \subseteq Lit(app.last, app)

LEMMA DamagedAppend ==
  ASSUME NEW cs \in Seq(Commits), NEW c \in Commits
  PROVE  Damaged(Append(cs, c)) = Damaged(cs) \cup c.damage /\ Last(Append(cs, c)) = c
<1> DEFINE n == Len(cs)
           ds == Append(cs, c)
<1>1. /\ n \in Nat /\ DOMAIN cs = 1 .. n /\ DOMAIN ds = 1 .. n + 1 /\ Len(ds) = n + 1
      /\ ds[n + 1] = c /\ \A i \in 1 .. n : ds[i] = cs[i]
  OBVIOUS
<1> HIDE DEF n, ds
<1>2. 1 .. n + 1 = (1 .. n) \cup {n + 1}
  BY <1>1
<1>3. Damaged(ds) = Damaged(cs) \cup c.damage
  <2>1. ASSUME NEW x \in Damaged(ds) PROVE x \in Damaged(cs) \cup c.damage
    <3> PICK i \in 1 .. n + 1 : x \in ds[i].damage
      BY <1>1, <2>1 DEF Damaged
    <3>1. QED
      BY <1>1, <1>2 DEF Damaged
  <2>2. ASSUME NEW x \in Damaged(cs) PROVE x \in Damaged(ds)
    <3> PICK i \in 1 .. n : x \in cs[i].damage
      BY <1>1, <2>2 DEF Damaged
    <3>1. i \in 1 .. n + 1 /\ ds[i] = cs[i]
      BY <1>1, <1>2
    <3>2. QED
      BY <1>1, <3>1 DEF Damaged
  <2>3. c.damage \subseteq Damaged(ds)
    <3>1. n + 1 \in DOMAIN ds
      BY <1>1, <1>2
    <3>2. QED
      BY <1>1, <3>1 DEF Damaged
  <2>4. QED
    BY <2>1, <2>2, <2>3
<1>4. Last(ds) = c
  BY <1>1 DEF Last
<1>5. QED
  BY <1>3, <1>4 DEF ds

LEMMA BoxCovers ==
  ASSUME NEW c, Typed(c), NEW ps, NEW qs \in SUBSET ps
  PROVE  Lit(qs, c) \subseteq Box(ps, c) /\ Box(ps, c) \subseteq Surface(c)
<1>1. ASSUME NEW x \in Lit(qs, c) PROVE x \in Box(ps, c)
  <2>1. x \in Surface(c)
    BY <1>1 DEF Lit
  <2> PICK p \in qs : x \in Dot(p)
    BY <1>1 DEF Lit
  <2>2. p - R <= x /\ x <= p + R /\ p \in ps
    BY DEF Dot
  <2>3. QED
    BY <2>1, <2>2 DEF Box
<1>2. QED
  BY <1>1 DEF Box

LEMMA LitOf ==
  ASSUME NEW c, NEW d, c.W = d.W PROVE \A ps : Lit(ps, c) = Lit(ps, d) /\ Surface(c) = Surface(d)
BY DEF Lit, Surface

(* What one event comes to on the canvas.                                    *)
Same(c)      == /\ c.W = app.W /\ c.last = app.last /\ c.gen = app.gen
                /\ c.allocated = app.allocated
Fresh(c)     == c.last = {} /\ c.gen = app.gen + 1 /\ c.allocated
Painted(c)   == /\ c.allocated /\ app'.allocated /\ app'.W = c.W /\ app'.gen = c.gen
                /\ app'.last = Shown(c) /\ commits' = Append(commits, Commit(c))
Unpainted(c) == /\ app'.W = c.W /\ app'.gen = c.gen /\ app'.last = c.last
                /\ app'.allocated = c.allocated /\ commits' = commits

LEMMA RenderOutcome ==
  ASSUME NEW c, Typed(c), Render(c)
  PROVE  (c.allocated => Painted(c)) /\ (~c.allocated => Unpainted(c))
BY DEF Render, Rendered, Painted, Unpainted, Typed, AppFields

LEMMA Outcome ==
  ASSUME NEW c, Typed(c), Render(c) \/ Schedule(c) \/ Keep(c)
  PROVE  Painted(c) \/ Unpainted(c)
<1>1. Keep([c EXCEPT !.pending = TRUE]) => Unpainted(c)
  BY DEF Keep, Unpainted, Typed, AppFields
<1>2. Keep(c) => Unpainted(c)
  BY DEF Keep, Unpainted
<1>3. QED
  BY <1>1, <1>2, RenderOutcome DEF Schedule, Typed

Paints == \E c : /\ Typed(c)
                 /\ \/ Same(c) /\ (Painted(c) \/ Unpainted(c))
                    \/ Fresh(c) /\ Painted(c)

LEMMA DispatchPaints == ASSUME IInv, Dispatch PROVE Paints
<1> PICK e : e = Head(wire)
  OBVIOUS
<1>1. e \in Events /\ Typed(app)
  BY DoneHead DEF Dispatch, IInv, Types
<1>2. \/ TpDown(e) \/ TpMotion(e) \/ TpUp(e) \/ TpCancel \/ FrameDone
      \/ e.type = "toplevel" /\ TConfigure(e)
      \/ TConfigureUnmaps(e) \/ XConfigure \/ Synced \/ TClose
  BY DEF Dispatch
<1>3. ASSUME NEW c, Typed(c), Same(c), Render(c) \/ Schedule(c) \/ Keep(c) PROVE Paints
  BY <1>3, Outcome DEF Paints
<1>4. ASSUME NEW c, Typed(c), Fresh(c), ~c.inflight, Render(c) \/ Schedule(c) PROVE Paints
  BY <1>4, RenderOutcome DEF Schedule, Fresh, Paints
<1>5. ASSUME NEW S, NEW tp, Schedule(With(app, S, tp)) PROVE Paints
  <2>1. Typed(With(app, S, tp)) /\ Same(With(app, S, tp))
    BY <1>1 DEF With, Same, Typed, AppFields
  <2>2. QED
    BY <1>3, <1>5, <2>1
<1>6. Same(app)
  BY DEF Same
<1>7. CASE TpDown(e)
  BY <1>1, <1>3, <1>5, <1>6, <1>7, Zenon DEF TpDown
<1>8. CASE TpMotion(e) \/ TpUp(e) \/ TpCancel
  BY <1>5, <1>8 DEF TpMotion, TpUp, TpCancel
<1>9. CASE FrameDone
  <2> DEFINE c == [app EXCEPT !.inflight = FALSE, !.pending = FALSE]
  <2>1. Typed(c) /\ Same(c)
    BY <1>1 DEF Same, Typed, AppFields
  <2>2. Render(c) \/ Keep(c)
    BY <1>9 DEF FrameDone
  <2> HIDE DEF c
  <2>3. QED
    BY <1>3, <2>1, <2>2
<1>10. CASE e.type = "toplevel" /\ TConfigure(e)
  <2>1. e.size \in Nat
    BY <1>1, <1>10, CanvasAssumption DEF Events
  <2>2. CASE e.size \notin {0, app.W}
    <3> DEFINE b == [app EXCEPT !.W = e.size]
               c == Alloc(b)
    <3>1. Typed(b) /\ b.gen = app.gen
      BY <1>1, <2>1 DEF Typed, AppFields
    <3>2. Schedule(c)
      BY <1>10, <2>1, <2>2 DEF TConfigure
    <3> HIDE DEF b
    <3>3. Typed(c) /\ Fresh(c) /\ ~c.inflight
      <4>1. c.last = {}
        BY <3>1 DEF Alloc, Typed, AppFields
      <4>2. QED
        BY <3>1, <4>1, AllocType DEF Fresh
    <3> HIDE DEF c
    <3>4. QED
      BY <1>4, <3>2, <3>3
  <2>3. CASE e.size \in {0, app.W}
    BY <1>1, <1>3, <1>6, <1>10, <2>3 DEF TConfigure
  <2>4. QED
    BY <2>2, <2>3
<1>11. CASE TConfigureUnmaps(e) \/ TClose
  <2> PICK x : Keep([app EXCEPT !.phase = x])
    BY <1>11 DEF TConfigureUnmaps, TClose
  <2> DEFINE c == [app EXCEPT !.phase = x]
  <2>1. Typed(c) /\ Same(c)
    BY <1>1 DEF Same, Typed, AppFields
  <2> HIDE DEF c
  <2>2. QED
    BY <1>3, <2>1 DEF c
<1>12. CASE XConfigure
  <2> DEFINE c == [app EXCEPT !.acked = TRUE]
  <2>1. Typed(c) /\ Same(c)
    BY <1>1 DEF Same, Typed, AppFields
  <2>2. Keep(c)
    BY <1>12 DEF XConfigure
  <2> HIDE DEF c
  <2>3. QED
    BY <1>3, <2>1, <2>2
<1>13. CASE Synced
  <2> DEFINE b == Alloc(app)
             c == [b EXCEPT !.phase = "loop"]
  <2>1. Typed(b) /\ b.last = {} /\ b.gen = app.gen + 1 /\ b.allocated /\ ~b.inflight
    BY <1>1, AllocType DEF Alloc, Typed, AppFields
  <2>2. Render(c)
    BY <1>13 DEF Synced
  <2> HIDE DEF b
  <2>3. Typed(c) /\ Fresh(c) /\ ~c.inflight
    BY <2>1 DEF Fresh, Typed, AppFields
  <2> HIDE DEF c
  <2>4. QED
    BY <1>4, <2>2, <2>3
<1>14. QED
  BY <1>2, <1>7, <1>8, <1>9, <1>10, <1>11, <1>12, <1>13

LEMMA DispatchPictures == ASSUME IInv, PicInv, Dispatch PROVE PicInv'
<1>1. /\ screen' = screen /\ commits \in Seq(Commits) /\ app.gen \in Nat
      /\ back' = (IF app'.gen # app.gen THEN app'.W = screen.size /\ app'.last # {} ELSE back)
  BY DEF Dispatch, Rebuilt, IInv, Types, Typed
<1> PICK c : /\ Typed(c)
             /\ \/ Same(c) /\ (Painted(c) \/ Unpainted(c))
                \/ Fresh(c) /\ Painted(c)
  BY DispatchPaints DEF Paints
<1>2. app'.W = c.W /\ app'.gen = c.gen
  BY DEF Painted, Unpainted
<1>3. \A ps : Lit(ps, app)' = Lit(ps, c)
  BY <1>2 DEF Lit, Surface
<1>4. (screen.lit \subseteq 0 .. screen.size - 1)'
  BY <1>1 DEF PicInv
<1>5. CASE Same(c) /\ Unpainted(c)
  <2>1. /\ app'.W = app.W /\ app'.last = app.last /\ app'.allocated = app.allocated
        /\ back' = back /\ commits' = commits
    BY <1>1, <1>5 DEF Same, Unpainted
  <2>2. \A ps : Lit(ps, app)' = Lit(ps, app)
    BY <2>1 DEF Lit, Surface
  <2>3. QED
    BY <1>1, <1>4, <2>1, <2>2 DEF PicInv, Damaged
<1>6. ASSUME Painted(c)
      PROVE  /\ commits' # <<>> /\ Last(commits').size = c.W
             /\ Last(commits').lit = Lit(Shown(c), c)
             /\ Damaged(commits') = Damaged(commits) \cup Damage(c)
             /\ app'.last = Shown(c)
  <2>1. Commit(c) \in Commits /\ commits' = Append(commits, Commit(c)) /\ app'.last = Shown(c)
    BY <1>6, CommitType DEF Painted
  <2>2. /\ Commit(c).size = c.W /\ Commit(c).lit = Lit(Shown(c), c)
        /\ Commit(c).damage = Damage(c)
    BY DEF Commit
  <2>3. commits' # <<>>
    BY <1>1, <2>1
  <2>4. QED
    BY <1>1, <2>1, <2>2, <2>3, DamagedAppend
<1>7. /\ Lit(Shown(c), c) \subseteq Damage(c) /\ Lit(c.last, c) \subseteq Damage(c)
      /\ c.last \cup Shown(c) = {} => Damage(c) = Surface(c)
  <2>1. Lit(Shown(c), c) \subseteq Damage(c) /\ Lit(c.last, c) \subseteq Damage(c)
    BY BoxCovers DEF Damage
  <2>2. c.last \cup Shown(c) = {} => Damage(c) = Surface(c)
    BY DEF Damage, Box
  <2>3. QED
    BY <2>1, <2>2
<1>8. ASSUME Painted(c),
             screen.size = c.W /\ ~back' =>
               screen.lit \ Damaged(commits') \subseteq Lit(Shown(c), c)
      PROVE  PicInv'
  <2>1. Lit(Shown(c), c) \ Damaged(commits') \subseteq screen.lit
    BY <1>6, <1>7, <1>8
  <2>2. (Damaged(commits))' = Damaged(commits') /\ Lit(app.last, app)' = Lit(Shown(c), c)
    BY <1>3, <1>6, <1>8 DEF Damaged
  <2> HIDE DEF Damaged, Lit
  <2>3. QED
    BY <1>1, <1>2, <1>4, <1>6, <1>8, <2>1, <2>2 DEF PicInv
<1>9. CASE Same(c) /\ Painted(c)
  <2>1. /\ app.allocated /\ c.W = app.W /\ c.last = app.last /\ back' = back
    BY <1>1, <1>2, <1>9 DEF Same, Painted
  <2>2. Lit(app.last, app) = Lit(c.last, c)
    BY <2>1, LitOf
  <2>3. screen.size = c.W /\ ~back' => screen.lit \ Damaged(commits') = {}
    BY <1>6, <1>7, <1>9, <2>1, <2>2 DEF PicInv
  <2>4. QED
    BY <1>8, <1>9, <2>3
<1>10. CASE Fresh(c) /\ Painted(c)
  <2>1. c.last = {} /\ back' = (c.W = screen.size /\ Shown(c) # {})
    BY <1>1, <1>2, <1>6, <1>10 DEF Fresh
  <2>2. screen.size = c.W /\ ~back' => screen.lit \ Damaged(commits') = {}
    <3> SUFFICES ASSUME screen.size = c.W, ~back' PROVE screen.lit \ Damaged(commits') = {}
      OBVIOUS
    <3>1. Damage(c) = Surface(c)
      BY <1>7, <2>1
    <3>2. screen.lit \subseteq Surface(c)
      BY DEF PicInv, Surface
    <3>3. QED
      BY <1>6, <1>10, <3>1, <3>2
  <2>3. QED
    BY <1>8, <1>10, <2>2
<1>11. QED
  BY <1>5, <1>9, <1>10

LEMMA PresentPictures == ASSUME IInv, PicInv, Present PROVE PicInv'
<1> DEFINE new == Last(commits)
           L == Lit(app.last, app)
           D == Damaged(commits)
<1>1. /\ commits # <<>> /\ commits' = <<>> /\ UNCHANGED <<app, back>>
      /\ screen'.size = new.size
      /\ screen'.lit = IF screen.size # new.size THEN new.lit
                       ELSE (screen.lit \ D) \cup (new.lit \cap D)
  BY DEF Present, Env, Damaged
<1>2. app.allocated
  BY <1>1 DEF IInv, Swapped, Types, Typed
<1>3. new.size = app.W /\ new.lit = L
  BY <1>1, <1>2 DEF PicInv
<1>4. L \subseteq 0 .. app.W - 1
  BY DEF Lit, Surface
<1>5. screen'.lit \subseteq 0 .. app.W - 1
  BY <1>1, <1>3, <1>4 DEF PicInv
<1>6. L \subseteq screen'.lit /\ (~back => screen'.lit \subseteq L)
  BY <1>1, <1>2, <1>3 DEF PicInv
<1>7. L' = L /\ D' = {}
  BY <1>1 DEF Lit, Surface, Damaged
<1> HIDE DEF L, D, new
<1>8. QED
  BY <1>1, <1>3, <1>5, <1>6, <1>7 DEF PicInv, L, D

LEMMA PicInvInit == Init => PicInv
BY DEF Init, PicInv

LEMMA PicInvKept == IInv /\ PicInv /\ [Next]_vars => PicInv'
<1> SUFFICES ASSUME IInv, PicInv, [Next]_vars PROVE PicInv'
  OBVIOUS
<1>1. CASE UNCHANGED <<app, commits, screen, back>>
  BY <1>1 DEF PicInv, Damaged, Lit, Surface
<1>2. QED
  BY <1>1, DispatchPictures, PresentPictures
     DEF Next, Configure, Touches, Cancel, Close, Env, vars

(* Once all events are handled and all commits shown, touchtest's picture    *)
(* has a circle for every finger that found one, where the finger is; and    *)
(* nothing else, unless the size was changed and changed back between two    *)
(* repaints (touchtest.c, render() with its damaged box, alloc_buffers()).   *)
THEOREM PictureTrue == Spec => []TruePicture
<1>1. Spec => [](TouchInv /\ PicInv)
  <2>1. Init => TouchInv /\ PicInv
    BY TouchInvInit, PicInvInit
  <2>2. IInv /\ TouchInv /\ PicInv /\ [Next]_vars => TouchInv' /\ PicInv'
    BY TouchInvKept, PicInvKept
  <2>3. QED
    BY <2>1, <2>2, Invariant, PTL DEF Spec
<1>2. ASSUME IInv, TouchInv, PicInv PROVE TruePicture
  <2> SUFFICES ASSUME Loop, wire = <<>>, commits = <<>> PROVE Picture
    BY DEF TruePicture
  <2>1. ~Callbacks
    BY DEF Callbacks
  <2>2. app.allocated /\ app.last = Shown(app)
    BY <1>2, <2>1 DEF IInv, Owed, Drawn, Loop
  <2>3. app.last = Fingers
    BY <1>2, <2>2, FingersShown
  <2>4. Damaged(commits) = {}
    BY DEF Damaged
  <2>5. /\ screen.size = app.W /\ Lit(app.last, app) \subseteq screen.lit
        /\ ~back => screen.lit \subseteq Lit(app.last, app)
    BY <1>2, <2>2, <2>4 DEF PicInv
  <2>6. QED
    BY <2>3, <2>5 DEF Picture
<1>3. QED
  BY <1>1, <1>2, Invariant, PTL
=============================================================================
