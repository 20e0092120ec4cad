--------------------------- MODULE MCRelayFilter ---------------------------
(* RelayFilter on the objects of the panel: the planes kwin tries, the       *)
(* halves, crtc 206 and a phantom one (271), and connector 67, which kwin    *)
(* lists with its link-status.                                               *)
EXTENDS RelayFilter, TLC

Plane(id, fb, crtc)  == [id |-> id, p |-> [FB_ID |-> fb, CRTC_ID |-> crtc]]
Fenced(id, fb, crtc) == [id |-> id, p |-> [FB_ID |-> fb, CRTC_ID |-> crtc, IN_FENCE_FD |-> 9]]
Crtc(id, act, mode_) == [id |-> id, p |-> [ACTIVE |-> act, MODE_ID |-> mode_, VRR_ENABLED |-> 0]]
Conn(crtc)           == [id |-> CONN, p |-> [CRTC_ID |-> crtc] @@ [n \in {"link-status"} |-> 0]]

FewEntries ==
  { Plane(97, 0, 0), Fenced(97, 1, CRTC), Plane(133, 3, 271), Plane(L, 0, 0), Plane(R, 0, 0),
    Crtc(CRTC, 0, 0), Crtc(CRTC, 1, 5), Crtc(271, 0, 0), Crtc(271, 1, 6), Conn(CRTC), Conn(271), Conn(0) }
=============================================================================
