---------------------------- MODULE TouchCanvas ----------------------------
(***************************************************************************)
(* src/src/touchtest.c: a Wayland client that shows a circle under every   *)
(* finger.  It draws into two buffers in turn and asks for a frame         *)
(* callback with every commit; while the callback is outstanding changes   *)
(* are only noted (`pending`), and drawn when it arrives.                  *)
(*                                                                         *)
(* The surface has one dimension here: a circle is an interval of pixels,  *)
(* the damaged box the interval around all circles old and new.  The       *)
(* compositor shows the newest commit when it repaints, updating only what *)
(* was damaged unless the size changed, and then answers every callback.   *)
(***************************************************************************)
EXTENDS Integers, FiniteSets, SequencesExt

CONSTANTS
  Ids,            \* the ids of touch points
  Points,         \* where they may be
  NoTouch,
  NTouch,         \* circles that can be shown (16)
  R,              \* the radius of a circle (40)
  DefaultW,       \* the size before the compositor has set one (1280)
  Sizes,          \* the sizes a compositor may set; 0 leaves it to the client
  MaxFrames,      \* frames of touch events in a behaviour
  MaxRequests,    \* touch points that change in a frame
  MaxConfigures   \* configure events after the first

ASSUME CanvasAssumption ==
  /\ Ids \subseteq Nat /\ IsFiniteSet(Ids) /\ NoTouch \notin Points
  /\ NTouch \in Nat \ {0} /\ R \in Nat \ {0} /\ DefaultW \in Nat \ {0}
  /\ Sizes \subseteq Nat /\ Points \subseteq Nat
  /\ MaxFrames \in Nat /\ MaxRequests \in Nat /\ MaxConfigures \in Nat

VARIABLES
  told,     \* the touch points as the compositor has announced them
  app,      \* the client: see Client
  wire,     \* events on their way to the client
  commits,  \* commits the compositor has not shown yet, each with a callback
  screen,   \* what is on the screen: the buffer, its size and the lit pixels
  frames, configures,   \* counted for the bounds
  overlap,  \* buffers were rebuilt while a callback was outstanding (history variable)
  missed,   \* touch points that went down while every circle was taken (history variable)
  back      \* buffers were rebuilt for the size on the screen (history variable)

vars == <<told, app, wire, commits, screen, frames, configures, overlap, missed, back>>

Free    == [id |-> NoTouch, at |-> NoTouch]
Circles == 0 .. NTouch - 1
Stream == INSTANCE TouchStream WITH frame <- <<>>

Client  == [phase : {"roundtrip", "loop", "closed", "crashed"}, W : Nat, allocated : BOOLEAN,
            tps : [Circles -> [id : Ids, at : Points] \cup {Free}],
            last : SUBSET Points,              \* the circles of the last commit
            gen : Nat, cur : {0, 1},           \* the buffer that is drawn next
            inflight : BOOLEAN, pending : BOOLEAN, acked : BOOLEAN]

-----------------------------------------------------------------------------
(* Drawing. *)
Shown(c)    == {c.tps[i].at : i \in {k \in Circles : c.tps[k] # Free}}
Surface(c)  == 0 .. c.W - 1
Dot(p)      == p - R .. p + R
Lit(ps, c)  == (UNION {Dot(p) : p \in ps}) \cap Surface(c)

(* The box around some circles; without any, everything.                     *)
Box(ps, c)  == IF ps = {} THEN Surface(c)
               ELSE {x \in Surface(c) : \E p, q \in ps : p - R <= x /\ x <= q + R}

\* Faulty variant: only the new circles are damaged, so that old ones stay on the screen.
DamageNew(c) == Box(Shown(c), c)

Damage(c) == Box(c.last \cup Shown(c), c)

Commit(c) == [buf |-> <<c.gen, c.cur>>, size |-> c.W,
              lit |-> Lit(Shown(c), c), damage |-> Damage(c)]

\* Faulty variant: the buffers are not swapped.
RenderedSameBuffer(c) ==
  IF ~c.allocated THEN [c EXCEPT !.phase = "crashed"]
  ELSE [c EXCEPT !.inflight = TRUE, !.last = Shown(c)]

(* Before alloc_buffers() there is nothing to draw into: the program dies.   *)
Rendered(c) ==
  IF ~c.allocated THEN [c EXCEPT !.phase = "crashed"]
  ELSE [c EXCEPT !.inflight = TRUE, !.last = Shown(c), !.cur = 1 - c.cur]

Render(c) == /\ app' = Rendered(c)
             /\ commits' = IF c.allocated THEN Append(commits, Commit(c)) ELSE commits

Keep(c) == app' = c /\ UNCHANGED commits

\* Faulty variant: the change is not noted while a frame is in flight.
ScheduleForgets(c) == IF ~c.inflight THEN Render(c) ELSE Keep(c)

Schedule(c) == IF ~c.inflight THEN Render(c) ELSE Keep([c EXCEPT !.pending = TRUE])

Alloc(c) == [c EXCEPT !.allocated = TRUE, !.gen = c.gen + 1, !.cur = 0,
                      !.last = {}, !.inflight = FALSE, !.pending = FALSE]

-----------------------------------------------------------------------------
(* The handlers, for the first event on the wire. *)
Holding(c, id) == {i \in Circles : c.tps[i] # Free /\ c.tps[i].id = id}
Idle(c)        == {i \in Circles : c.tps[i] = Free}
FindSlot(c, id) == IF Holding(c, id) # {} THEN Holding(c, id) ELSE Idle(c)

With(c, S, tp) == [c EXCEPT !.tps = [i \in Circles |-> IF i \in S THEN tp ELSE c.tps[i]]]

TpDown(e) ==
  LET S == FindSlot(app, e.id) IN
  \/ S = {} /\ Keep(app) /\ missed' = missed \cup {e.id}
  \/ \E i \in S : /\ \A j \in S : i <= j
                  /\ Schedule(With(app, {i}, [id |-> e.id, at |-> e.at]))
                  /\ UNCHANGED missed

TpMotion(e) == /\ Schedule(With(app, Holding(app, e.id), [id |-> e.id, at |-> e.at]))
               /\ UNCHANGED missed

TpUp(e) == Schedule(With(app, Holding(app, e.id), Free)) /\ missed' = missed \ {e.id}

TpCancel == Schedule(With(app, Circles, Free)) /\ missed' = {}

\* Faulty variant: the callback clears the note without drawing.
FrameDoneIdle ==
  LET c == [app EXCEPT !.inflight = FALSE] IN
  Keep([c EXCEPT !.pending = FALSE]) /\ UNCHANGED missed

\* Faulty variant: only a pending change ends the frame.
FrameDonePending ==
  LET c == [app EXCEPT !.inflight = FALSE, !.pending = FALSE] IN
  (IF app.pending THEN Render(c) ELSE Keep(app)) /\ UNCHANGED missed

FrameDone ==
  LET c == [app EXCEPT !.inflight = FALSE, !.pending = FALSE] IN
  (IF app.pending THEN Render(c) ELSE Keep(c)) /\ UNCHANGED missed

TConfigure(e) ==
  LET c == IF e.size \notin {0, app.W} THEN Alloc([app EXCEPT !.W = e.size]) ELSE app IN
  (IF e.size > 0 THEN Schedule(c) ELSE Keep(c)) /\ UNCHANGED missed

(* alloc_buffers() unmaps the old buffers with the new size: growing ones    *)
(* take what lies behind with them, the malloc()ed template first of all.    *)
TConfigureUnmaps(e) ==
  /\ app.allocated /\ e.size > app.W
  /\ Keep([app EXCEPT !.phase = "crashed"]) /\ UNCHANGED missed

XConfigure == Keep([app EXCEPT !.acked = TRUE]) /\ UNCHANGED missed

(* The end of the second roundtrip of main(). *)
Synced == Render([Alloc(app) EXCEPT !.phase = "loop"]) /\ UNCHANGED missed

TClose == Keep([app EXCEPT !.phase = "closed"]) /\ UNCHANGED missed

Callbacks == commits # <<>> \/ \E i \in DOMAIN wire : wire[i].type = "done"
Rebuilt   == app'.gen # app.gen

Dispatch ==
  LET e == Head(wire) IN
  /\ app.phase \in {"roundtrip", "loop"} /\ wire # <<>>
  /\ wire' = Tail(wire)
  /\ \/ e.type = "down" /\ TpDown(e)
     \/ e.type = "motion" /\ TpMotion(e)
     \/ e.type = "up" /\ TpUp(e)
     \/ e.type = "cancel" /\ TpCancel
     \/ e.type = "done" /\ FrameDone
     \/ e.type = "toplevel" /\ (TConfigure(e) \/ TConfigureUnmaps(e))
     \/ e.type = "xdg" /\ XConfigure
     \/ e.type = "sync" /\ Synced
     \/ e.type = "close" /\ TClose
  /\ overlap' = (IF Rebuilt THEN overlap \/ Callbacks ELSE overlap /\ Callbacks')
  /\ back' = (IF Rebuilt THEN app'.W = screen.size /\ app'.last # {} ELSE back)
  /\ UNCHANGED <<told, screen, frames, configures>>

-----------------------------------------------------------------------------
(* The compositor. *)
Configured(size) == <<[type |-> "toplevel", size |-> size], [type |-> "xdg"]>>

(* The first configure event arrives before or after the end of the          *)
(* roundtrip that follows the initial commit.                                *)
Init ==
  /\ told = [i \in Ids |-> NoTouch]
  /\ app = [phase |-> "roundtrip", W |-> DefaultW, allocated |-> FALSE,
            tps |-> [i \in Circles |-> Free], last |-> {}, gen |-> 0, cur |-> 0,
            inflight |-> FALSE, pending |-> FALSE, acked |-> FALSE]
  /\ wire \in {<<[type |-> "sync"]>>} \cup {Configured(s) \o <<[type |-> "sync"]>> : s \in Sizes}
  /\ commits = <<>> /\ screen = [buf |-> <<0, 0>>, size |-> 0, lit |-> {}]
  /\ frames = 0 /\ configures = 0 /\ overlap = FALSE /\ missed = {} /\ back = FALSE

Env == UNCHANGED <<app, overlap, missed, back>>

Configure(size) ==
  /\ configures < MaxConfigures /\ configures' = configures + 1
  /\ wire' = wire \o Configured(size)
  /\ Env /\ UNCHANGED <<told, commits, screen, frames>>

(* A repaint: the newest commit is shown, all callbacks are answered.        *)
Present ==
  LET new     == Last(commits)
      damaged == UNION {commits[i].damage : i \in DOMAIN commits}
  IN  /\ commits # <<>>
      /\ screen' = [buf |-> new.buf, size |-> new.size,
                    lit |-> IF screen.size # new.size THEN new.lit
                            ELSE (screen.lit \ damaged) \cup (new.lit \cap damaged)]
      /\ wire' = wire \o [i \in DOMAIN commits |-> [type |-> "done"]]
      /\ commits' = <<>>
      /\ Env /\ UNCHANGED <<told, frames, configures>>

(* Touch points reach the client once it is on the screen, frame by frame.   *)
Ascending(S) == {s \in [1 .. Cardinality(S) -> S] : \A i, j \in DOMAIN s : i < j => s[i] < s[j]}

TouchEvent(id, r) == IF r.req = "up" THEN [type |-> "up", id |-> id]
                     ELSE [type |-> r.req, id |-> id, at |-> r.at]

Touches ==
  /\ screen.size > 0 /\ frames < MaxFrames /\ frames' = frames + 1
  /\ \E f \in {g \in Stream!Frames : Cardinality(DOMAIN g) <= MaxRequests} :
       /\ Stream!Legal(f) /\ told' = Stream!After(f)
       /\ \E ids \in Ascending(DOMAIN f) :
            wire' = wire \o [k \in DOMAIN ids |-> TouchEvent(ids[k], f[ids[k]])]
  /\ Env /\ UNCHANGED <<commits, screen, configures>>

Cancel ==
  /\ screen.size > 0 /\ frames < MaxFrames /\ frames' = frames + 1
  /\ told' = [i \in Ids |-> NoTouch] /\ wire' = Append(wire, [type |-> "cancel"])
  /\ Env /\ UNCHANGED <<commits, screen, configures>>

Close ==
  /\ screen.size > 0 /\ configures < MaxConfigures /\ configures' = MaxConfigures
  /\ wire' = Append(wire, [type |-> "close"])
  /\ Env /\ UNCHANGED <<told, commits, screen, frames>>

Next == Dispatch \/ (\E s \in Sizes : Configure(s)) \/ Present \/ Touches \/ Cancel \/ Close

(* The client dispatches what arrives, and the compositor repaints.          *)
Spec     == Init /\ [][Next]_vars
FairSpec == Spec /\ WF_vars(Dispatch) /\ WF_vars(Present)

-----------------------------------------------------------------------------
(* Properties.                                                               *)
Loop == app.phase = "loop"

(* What has changed since the last commit is drawn or noted: when no frame   *)
(* is in flight the last commit shows every circle, and nothing is pending.  *)
NothingForgotten == Loop /\ ~app.inflight => app.last = Shown(app) /\ ~app.pending

(* A frame believed in flight has a callback that is still to come;          *)
(* otherwise the canvas would never draw again.                              *)
NoLostFrame == app.inflight => Callbacks

(* The buffer that will be drawn next is neither on the screen nor waiting   *)
(* for it, except in the wake of a rebuilding during a frame.                *)
InUse(buf) == screen.buf = buf \/ \E i \in DOMAIN commits : commits[i].buf = buf

DrawsFree == Loop /\ ~app.inflight /\ ~overlap => ~InUse(<<app.gen, app.cur>>)

(* When everything has been handled and shown, the screen has a circle for   *)
(* each finger, where it is, and nothing else, whatever was damaged, missed  *)
(* or resized on the way.  (A finger that went down when no circle was left  *)
(* is not shown until it comes again.  A rebuilding forgets which circles    *)
(* were shown: if the size is changed and changed back between two repaints, *)
(* old circles may stay, but none is missing.)                               *)
Fingers == {told[i] : i \in {k \in Ids \ missed : told[k] # NoTouch}}
Picture == /\ screen.size = app.W
           /\ Lit(Fingers, app) \subseteq screen.lit
           /\ ~back => screen.lit = Lit(Fingers, app)

TruePicture == Loop /\ wire = <<>> /\ commits = <<>> => Picture

(* When the fingers come to rest the picture gets there.                     *)
PictureCatchesUp == <>[](~Loop \/ Picture)

(* touchtest.c:7: "at most one redraw per compositor frame".                 *)
OneRedrawPerFrame == Len(commits) <= 1
=============================================================================
