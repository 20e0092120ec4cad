--------------------------- MODULE MCSplitCommit ---------------------------
(* SplitCommit on the objects of the panel.  The planes are the two virtual *)
(* ones, a real one and the halves; the crtcs 206 and one other kwin probes *)
(* (271); the connector is the panel's.  Framebuffers are 1..3, modes 5, 6. *)
EXTENDS SplitCommit

Plane(id, fb, crtc)  == [id |-> id, p |-> [FB_ID |-> fb, CRTC_ID |-> crtc]]
Fenced(id, fb, crtc) == [id |-> id, p |-> [FB_ID |-> fb, CRTC_ID |-> crtc, IN_FENCE_FD |-> 9]]
Crtc(id, act, mode)  == [id |-> id, p |-> [ACTIVE |-> act, MODE_ID |-> mode]]
Vrr(id)              == [id |-> id, p |-> [VRR_ENABLED |-> 0]]
Bare(id, act)        == [id |-> id, p |-> [ACTIVE |-> act]]
Conn(crtc)           == [id |-> CONN, p |-> [CRTC_ID |-> crtc]]

(* Every shape of entry the inventory tells apart. *)
AllEntries ==
  { Plane(97, 0, 0), Fenced(97, 1, CRTC), Plane(129, 2, 271),
    Plane(133, 0, 0), Fenced(133, 3, 271), Plane(L, 0, 0), Plane(R, 0, 0), Plane(L, 2, 271),
    Crtc(CRTC, 0, 0), Crtc(CRTC, 1, 5), Bare(CRTC, 0),
    Crtc(271, 1, 6), Bare(271, 1), Vrr(271),
    Conn(CRTC), Conn(271), Conn(0) }

(* Fewer, for behaviours of several commits. *)
FewEntries ==
  { Plane(97, 0, 0), Fenced(97, 1, CRTC), Plane(133, 3, 271), Plane(L, 0, 0), Plane(R, 0, 0),
    Crtc(CRTC, 0, 0), Crtc(271, 1, 6), Conn(271), Conn(0) }
=============================================================================
