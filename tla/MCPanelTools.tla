---------------------------- MODULE MCPanelTools ----------------------------
(* PanelTools on a device like piano (the halves are 161 and 157, masks are *)
(* empty, both framebuffer properties work) and one like canoe (other ids,  *)
(* masks set, a cursor plane, one property); this may have nothing connected.*)
(* One process runs any tool, another a takeover or a probe beside it.      *)
EXTENDS PanelTools, TLC

CONSTANTS p1, p2
MCProcs  == {p1, p2}
MCMayRun == (p1 :> Takeovers \cup Probes) @@ (p2 :> {"drmatomic", "replicate"})

Piano ==
  [planes |-> <<97, 157, 161>>, crtcs |-> <<206, 271>>, usable |-> [pl \in {97, 157, 161} |-> {}],
   cursors |-> {}, output |-> TRUE, encoder |-> 206, named |-> "none", fbProps |-> {"17", "34"},
   frames |-> {161 :> 206 @@ 157 :> 206, 97 :> 206 @@ 161 :> 206, 97 :> 271 @@ 161 :> 206}]
Canoe(enc) ==
  [planes |-> <<50, 53, 56>>, crtcs |-> <<88, 90>>,
   usable |-> (50 :> {88, 90} @@ 53 :> {88} @@ 56 :> {88}),
   cursors |-> {50}, output |-> enc # 0, encoder |-> enc, named |-> "34", fbProps |-> {"34"},
   frames |-> {53 :> 88 @@ 50 :> 88, 56 :> 88 @@ 50 :> 90, 50 :> 90}]

MCDevices == {Piano, Canoe(88), Canoe(0)}
=============================================================================
