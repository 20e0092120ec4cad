---------------------------- MODULE TouchStream ----------------------------
(***************************************************************************)
(* What touchinj promises kwin and touchtest relies on: touch points come  *)
(* as frames, a frame has at most one request per id, and a point is       *)
(* pressed only while it is up and moved or lifted only while it is down.  *)
(* These are the requests touch_down, touch_motion and touch_up of         *)
(* org_kde_kwin_fake_input, closed by touch_frame.                         *)
(***************************************************************************)
CONSTANTS Ids, Points, NoTouch

VARIABLES
  told,    \* where each touch point is down, as the compositor has been told
  frame    \* the last frame sent: a request for some of the ids

Request == [req : {"down", "motion", "up"}, at : Points]
Frames  == UNION {[S -> Request] : S \in (SUBSET Ids) \ {{}}}

Legal(f) == \A i \in DOMAIN f : (f[i].req = "down") = (told[i] = NoTouch)
After(f) == [i \in Ids |-> IF i \notin DOMAIN f THEN told[i]
                           ELSE IF f[i].req = "up" THEN NoTouch ELSE f[i].at]

Send(f) == told' = After(f) /\ frame' = f

Init == told = [i \in Ids |-> NoTouch] /\ frame = <<>>
Next == \E f \in Frames : Legal(f) /\ Send(f)
Spec == Init /\ [][Next]_<<told, frame>>
=============================================================================
