---------------------------- MODULE RelayFilter ----------------------------
(***************************************************************************)
(* What kwinwrap.c does with the contents of kwin's atomic commits, from   *)
(* the first one on.  The first is executed as kwin wrote it, to learn who *)
(* is DRM master.  If kwin is, every later commit goes through             *)
(* split_commit() (module SplitCommit).  If it is not, every commit, that  *)
(* one included, is executed by the wrapper from a filtered copy           *)
(* (build_local_atomic(), relay_atomic()).  Without KWINWRAP_HIJACK        *)
(* commits are filtered in kwin's memory (filter_commit()).                *)
(*                                                                         *)
(* FILTER removes the outputs of other crtcs, which kwin brings up with    *)
(* connectors that do not exist: the panel is connector 67 alone.          *)
(***************************************************************************)
EXTENDS SplitCommit

CONSTANTS
  Starts,      \* how kwinwrap is started: "probe" (KWINWRAP_HIJACK) or "plain"
  MaxRelay     \* the longest commit that is copied or filtered (64)

ASSUME StartsAssumption == Starts \subseteq {"probe", "plain"} /\ MaxRelay \in Nat

VARIABLE mode  \* NATIVE: "probe", "native", "relay"; or "plain"

allVars == <<vars, mode>>

-----------------------------------------------------------------------------
(* The copy that is executed for kwin. *)
ConnLinks(s) == {i \in DOMAIN s : s[i].id = CONN /\ Has(s[i], "CRTC_ID")}
Dyn(s)       == ConnLinks(s) # {}
Target(s)    == IF Dyn(s) THEN Val(s[Max(ConnLinks(s))], "CRTC_ID") ELSE 0

NoPlane(e)   == DOMAIN e.p \cap {"MODE_ID", "link-status", "CONNECTORS_ID"} # {}

\* Faulty variant: the crtc the connector is linked to does not survive itself.
KeepObjNoTarget(s, e) ==
  \/ ~Dyn(s) \/ e.id = CONN
  \/ Target(s) # 0 /\ Has(e, "CRTC_ID") /\ Val(e, "CRTC_ID") = Target(s) /\ ~NoPlane(e)

(* The connector, the crtc T it is linked to, and the planes on T. *)
KeepObj(s, e) ==
  \/ ~Dyn(s) \/ e.id = CONN
  \/ /\ Target(s) # 0
     /\ \/ e.id = Target(s)
        \/ Has(e, "CRTC_ID") /\ Val(e, "CRTC_ID") = Target(s) /\ ~NoPlane(e)

KeptProps(s, e) ==
  IF ~KeepObj(s, e) THEN {}
  ELSE IF Dyn(s) /\ e.id = CONN THEN DOMAIN e.p \cap {"CRTC_ID"}
  ELSE IF Dyn(s) /\ e.id = Target(s) THEN DOMAIN e.p \cap {"MODE_ID", "ACTIVE"}
  ELSE DOMAIN e.p

\* Faulty variant: the fence keeps the number it has in kwin.
LocalValueFenced(e, n) == e.p[n]

(* A fence's number means nothing outside kwin. *)
LocalValue(e, n) == IF n = "IN_FENCE_FD" THEN -1 ELSE e.p[n]

Local(s) ==
  [i \in {j \in DOMAIN s : KeptProps(s, s[j]) # {}} |->
     [id |-> s[i].id, p |-> [n \in KeptProps(s, s[i]) |-> LocalValue(s[i], n)]]]

(* filter_commit(): the objects of KEEP_OBJS, with the properties of keep_prop(). *)
PlainProps(e) ==
  CASE e.id = CONN -> DOMAIN e.p \cap {"CRTC_ID"}
    [] e.id = CRTC -> DOMAIN e.p \cap {"MODE_ID", "ACTIVE"}
    [] e.id = 97   -> DOMAIN e.p
    [] OTHER       -> {}

Filtered(s) ==
  IF Size(s) > MaxRelay THEN s
  ELSE [i \in {j \in DOMAIN s : PlainProps(s[j]) # {}} |->
          [id |-> s[i].id, p |-> [n \in PlainProps(s[i]) |-> s[i].p[n]]]]

-----------------------------------------------------------------------------
(* The kernel: a crtc has a mode exactly when the connector is linked to it, *)
(* is active only with a mode, and a plane with a framebuffer has a crtc.    *)
Crtcs == {e.id : e \in {x \in Entries : IsCrtc(x)}} \cup {CRTC}

Consistent(k) ==
  \A id \in Ids \ {CONN} :
    /\ id \in Crtcs =>
         ((k[id]["MODE_ID"] # 0) = (k[CONN]["CRTC_ID"] = id))
    /\ k[id]["ACTIVE"] # 0 => k[id]["MODE_ID"] # 0
    /\ (k[id]["FB_ID"] # 0) = (k[id]["CRTC_ID"] # 0)

(* What the kernel is given, in relay mode by the wrapper.                   *)
Given == IF mode = "relay" THEN Local(objs) ELSE objs

-----------------------------------------------------------------------------
RelayInit == Init /\ mode \in Starts

Build == (\E e \in Entries : Add(e)) /\ UNCHANGED mode

SplitStep ==
  /\ mode = "native"
  /\ (\E k \in Kinds : Submit(k)) \/ Again \/ (\E result \in {"accept", "refuse"} : Finish(result))
  /\ UNCHANGED mode

Send(k, s) ==
  /\ phase = "build" /\ objs # <<>> /\ Listed(L) = Listed(R)
  /\ objs' = s /\ kind' = k /\ phase' = "sent"
  /\ UNCHANGED <<asked, kern, count, mode>>

(* kwin tests what it is about to commit: its first commit is a test. *)
Probe == mode = "probe" /\ Send("test", objs)

(* Anything but EACCES is the answer of a master's file.                     *)
ProbeNative ==
  /\ mode = "probe" /\ (\E result \in {"accept", "refuse"} : Finish(result)) /\ mode' = "native"

ProbeRelay == mode = "probe" /\ phase = "sent" /\ mode' = "relay" /\ UNCHANGED vars

(* The copy is made anew whenever libdrm issues a commit again: kwin's       *)
(* memory is left as it is, and nothing changes.                             *)
Relay(k) == mode = "relay" /\ Send(k, objs)

Filter(k) == mode = "plain" /\ Send(k, Filtered(objs))

FilterAgain ==
  /\ mode = "plain" /\ phase = "sent"
  /\ objs' = Filtered(objs) /\ UNCHANGED <<kind, asked, phase, kern, count, mode>>

(* A commit that is too long to be copied is answered with EINVAL, and not   *)
(* executed.  The kernel takes what is consistent, or refuses.               *)
Answer(result) ==
  /\ mode \in {"relay", "plain"} /\ phase = "sent"
  /\ result = "accept" =>
       ~(mode = "relay" /\ Size(objs) > MaxRelay) /\ Consistent(Merge(kern, Given))
  /\ kern' = IF result = "accept" /\ kind # "test" THEN Merge(kern, Given) ELSE kern
  /\ objs' = <<>> /\ asked' = <<>> /\ kind' = "test"
  /\ count' = count + 1
  /\ phase' = IF count' < MaxCommits THEN "build" ELSE "done"
  /\ UNCHANGED mode

RelayNext ==
  \/ Build \/ SplitStep \/ Probe \/ ProbeNative \/ ProbeRelay \/ FilterAgain
  \/ \E k \in Kinds : Relay(k) \/ Filter(k)
  \/ \E result \in {"accept", "refuse"} : Answer(result)

RelaySpec == RelayInit /\ [][RelayNext]_allVars

-----------------------------------------------------------------------------
(* Properties.                                                               *)

(* Whatever kwin tries first, test and probe, once it commits natively only  *)
(* the halves ever show a framebuffer, and both the same: the commit that is *)
(* executed as kwin wrote it, to find out who is master, leaves no trace.    *)
NativePanel == mode \in {"probe", "native"} => HalvesAgree /\ OnlyHalvesLit

(* A commit that links the panel to a crtc T is relayed with the mode, the   *)
(* state and the planes of T as kwin asked for, and turns nothing else on;   *)
(* one that unlinks the panel turns nothing on at all.  One that leaves the  *)
(* connector alone is relayed as it is, whatever it turns on.  No fence of   *)
(* kwin's goes along.                                                        *)
SameBut(e, f, without) ==
  /\ e.id = f.id /\ DOMAIN f.p \subseteq DOMAIN e.p
  /\ \A n \in DOMAIN e.p \ without : n \in DOMAIN f.p /\ f.p[n] = e.p[n]

RelayedAsAsked ==
  mode = "relay" /\ phase = "sent" =>
    LET T == Target(asked) IN
    /\ \A i \in DOMAIN Given : Val(Given[i], "IN_FENCE_FD") <= 0
    /\ ~Dyn(asked) => /\ DOMAIN Given = DOMAIN asked
                      /\ \A i \in DOMAIN asked : SameBut(asked[i], Given[i], {"IN_FENCE_FD"})
    /\ T # 0 => \A i \in DOMAIN asked :
                  (asked[i].id = T /\ DOMAIN asked[i].p \cap {"MODE_ID", "ACTIVE"} # {})
                  \/ (Has(asked[i], "FB_ID") /\ Val(asked[i], "CRTC_ID") = T) =>
                    \E j \in DOMAIN Given :
                      SameBut(asked[i], Given[j], {"IN_FENCE_FD", "VRR_ENABLED"})
    /\ Dyn(asked) => \A j \in DOMAIN Given :
                       /\ Val(Given[j], "ACTIVE") # 0 => T # 0 /\ Given[j].id = T
                       /\ Val(Given[j], "FB_ID") # 0 => T # 0 /\ Val(Given[j], "CRTC_ID") = T

(* The connector leaves or joins the crtc c in a commit that is filtered of  *)
(* what it says about c: whatever is not the crtc the connector is linked to *)
(* now or, without KWINWRAP_HIJACK, not crtc 206.                            *)
Loses(c) ==
  /\ Dyn(asked) /\ (kern[CONN]["CRTC_ID"] = c) # (Target(asked) = c)
  /\ IF mode = "relay" THEN c # Target(asked) ELSE c # CRTC /\ Size(asked) <= MaxRelay

(* kwinwrap.c:457-459: what the filter leaves of a consistent commit is      *)
(* consistent, or "the kernel sees enabled/connectors mismatch".  It is so,  *)
(* but exactly for the commits that move or unlink the connector and lose    *)
(* the shutdown (or the start) of a crtc in the filter: those never are.     *)
FilterKeepsConsistent ==
  /\ mode \in {"relay", "plain"} /\ phase = "sent" /\ Consistent(kern)
  /\ Consistent(Merge(kern, asked))
  => (Consistent(Merge(kern, Given)) <=> \A c \in Crtcs : ~Loses(c))
=============================================================================
