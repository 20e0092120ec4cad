---------------------------- MODULE SplitCommit ----------------------------
(***************************************************************************)
(* split_commit() of src/src/kwinwrap.c: the rewriting of kwin's atomic    *)
(* commits for the 3200x2136 dual-DSI panel.  The panel must be scanned    *)
(* out by two planes, 161 (left half) and 157 (right half), of crtc 206,   *)
(* while kwin believes in the virtual planes 97 and 129 or in one real     *)
(* full-width plane on some other crtc.  Every commit is rewritten in      *)
(* place in kwin's memory, and kwin executes it; a commit the kernel       *)
(* interrupts is issued again from the memory that was rewritten.          *)
(*                                                                         *)
(* A commit is a sequence of entries, an entry an object id with the       *)
(* properties it sets.  Of the values only 0 ("off", "none") matters.  An  *)
(* entry that is dropped leaves its place empty, and what is appended gets *)
(* the places behind the last one: only the order of the places counts.    *)
(***************************************************************************)
EXTENDS Integers, Sequences, FiniteSetsExt

CONSTANTS
  Entries,      \* the entries kwin may put into a commit
  MaxEntries,   \* the most of them in one commit
  MaxObjs,      \* the longest commit that is rewritten (60; the arrays hold 64)
  MaxCommits    \* the most commits of a behaviour

VIRT == {97, 129}
L    == 161
R    == 157
CRTC == 206
CONN == 67
Halves == {L, R}

CrtcProps == {"ACTIVE", "MODE_ID", "VRR_ENABLED"}

Has(e, n) == n \in DOMAIN e.p
Val(e, n) == IF Has(e, n) THEN e.p[n] ELSE 0

(* The three kinds of object, told apart by their properties.  A plane is    *)
(* always given with its framebuffer and its crtc, both or neither of them 0.*)
IsConn(e)  == e.id = CONN /\ DOMAIN e.p \cap (CrtcProps \cup {"FB_ID", "IN_FENCE_FD"}) = {}
IsCrtc(e)  == e.id \notin VIRT \cup Halves \cup {CONN} /\ DOMAIN e.p \subseteq CrtcProps
IsPlane(e) == /\ e.id \notin {CRTC, CONN} /\ {"FB_ID", "CRTC_ID"} \subseteq DOMAIN e.p
              /\ DOMAIN e.p \cap (CrtcProps \cup {"link-status", "CONNECTORS_ID"}) = {}
              /\ e.p["FB_ID"] = 0 <=> e.p["CRTC_ID"] = 0

ASSUME EntriesAssumption ==
  \A e \in Entries : /\ DOMAIN e = {"id", "p"} /\ e.id \in Nat \ {0}
                     /\ DOMAIN e.p # {} /\ \A n \in DOMAIN e.p : e.p[n] \in Nat
                     /\ IsConn(e) \/ IsCrtc(e) \/ IsPlane(e)
ASSUME IdsAssumption ==
  \A e, f \in Entries : IsPlane(e) => Val(f, "CRTC_ID") # e.id /\ (IsCrtc(f) => f.id # e.id)
ASSUME BoundsAssumption == MaxEntries \in Nat /\ MaxObjs \in Nat /\ MaxCommits \in Nat

VARIABLES
  objs,    \* the commit in kwin's memory, before and after the rewriting
  kind,    \* "test" (TEST_ONLY), "commit", or "flip" (with PAGE_FLIP_EVENT)
  asked,   \* the commit as kwin built it (history variable)
  phase,   \* "build", "sent" (rewritten, in the kernel), or "done"
  kern,    \* the kernel's state: the property values of every object
  count    \* commits so far

vars == <<objs, kind, asked, phase, kern, count>>

Ids    == {e.id : e \in Entries} \cup Halves \cup {CRTC, CONN}
KProps == {"FB_ID", "CRTC_ID", "ACTIVE", "MODE_ID"}
Kinds  == {"test", "commit", "flip"}

-----------------------------------------------------------------------------
(* The inventory of a commit c = [kind, objs, cur], where cur is the mode   *)
(* crtc 206 has now.  Positions are kept where the code lets the first or   *)
(* the last entry win; {} is the code's -1.                                 *)
Pos(c)     == DOMAIN c.objs
Virtual(c) == {i \in Pos(c) : c.objs[i].id \in VIRT}
P97(c)     == IF Virtual(c) = {} THEN {} ELSE {Min(Virtual(c))}

\* Faulty variant: a crtc 206 that is already on is taken for one kwin lit.
I206OnlyOff(c) == {i \in Pos(c) \ Virtual(c) : c.objs[i].id = CRTC /\ Has(c.objs[i], "ACTIVE")
                                              /\ c.objs[i].p["ACTIVE"] = 0}

I206(c)  == {i \in Pos(c) \ Virtual(c) : c.objs[i].id = CRTC /\ Has(c.objs[i], "ACTIVE")}
Lit(c)   == {i \in Pos(c) \ (Virtual(c) \cup I206(c)) : Val(c.objs[i], "ACTIVE") # 0}
Kact(c)  == IF Lit(c) = {} THEN {} ELSE {Max(Lit(c))}
Other(c) == Pos(c) \ (Virtual(c) \cup I206(c) \cup Lit(c))
Iconn(c) == {i \in Other(c) : /\ c.objs[i].id = CONN /\ Has(c.objs[i], "CRTC_ID")
                              /\ c.objs[i].p["CRTC_ID"] # CRTC}
Active(c) == {i \in Other(c) : /\ c.objs[i].id # CONN /\ Has(c.objs[i], "FB_ID")
                               /\ Val(c.objs[i], "CRTC_ID") # 0}
Areal(c) == IF Active(c) = {} THEN {} ELSE {Min(Active(c))}

\* Faulty variant: the framebuffer is only looked for on the virtual plane.
FbVirtualOnly(c) ==
  LET virt == {i \in P97(c) : Val(c.objs[i], "FB_ID") # 0}
  IN  IF virt = {} THEN 0 ELSE Val(c.objs[CHOOSE i \in virt : TRUE], "FB_ID")

(* The framebuffer: the first virtual plane's, else the first active plane's. *)
Fb(c) ==
  LET virt == {i \in P97(c) : Val(c.objs[i], "FB_ID") # 0}
      from == IF virt # {} THEN virt ELSE Areal(c)
  IN  IF from = {} THEN 0 ELSE Val(c.objs[CHOOSE i \in from : TRUE], "FB_ID")

DoSplit(c) == Fb(c) # 0

(* The mode crtc 206 takes over from the crtc kwin lit. *)
Kblob(c) ==
  IF Kact(c) = {} THEN 0
  ELSE LET m == Val(c.objs[CHOOSE i \in Kact(c) : TRUE], "MODE_ID")
       IN  IF m = 0 /\ DoSplit(c) THEN c.cur ELSE m

Size(s)    == Cardinality(DOMAIN s)
TooLong(c) == Size(c.objs) > MaxObjs
NothingToSteal(c) == P97(c) = {} /\ Areal(c) = {} /\ Kact(c) = {} /\ Iconn(c) = {}

-----------------------------------------------------------------------------
(* What becomes of each entry. *)
Evdrop(c)  == c.kind = "flip"
OffCrtc(e) == /\ DOMAIN e.p \cap CrtcProps # {}
              /\ \A n \in DOMAIN e.p \cap CrtcProps : e.p[n] = 0

(* No framebuffer, no crtc, no live fence: taken for an idle plane. *)
Idle(e) == /\ DOMAIN e.p \cap {"FB_ID", "CRTC_ID"} # {}
           /\ \A n \in {"FB_ID", "CRTC_ID", "IN_FENCE_FD"} : Val(e, n) = 0

Half(id, fb) == [id |-> id, p |-> [CRTC_ID |-> CRTC, FB_ID |-> fb,
                                   SRC_X |-> IF id = L THEN 0 ELSE 1]]

Override(e, new) ==
  [id |-> e.id,
   p  |-> [n \in DOMAIN e.p \cup DOMAIN new |-> IF n \in DOMAIN new THEN new[n] ELSE e.p[n]]]

OnlyListed(e, new) == [n \in DOMAIN new \cap DOMAIN e.p |-> new[n]]

\* Faulty variant: a half that is listed is left as it is, and another entry appended.
RehomedNoHalf(c, i) ==
  IF i \in Areal(c) THEN [id |-> c.objs[i].id, p |-> [FB_ID |-> 0, CRTC_ID |-> 0]]
  ELSE IF i \in Kact(c) THEN Override(c.objs[i], OnlyListed(c.objs[i], [ACTIVE |-> 0, MODE_ID |-> 0]))
  ELSE c.objs[i]

(* The entries that are changed when the framebuffer is split. *)
Rehomed(c, i) ==
  LET e == c.objs[i] IN
  IF e.id \in Halves THEN Half(e.id, Fb(c))
  ELSE IF i \in Areal(c) THEN [id |-> e.id, p |-> [FB_ID |-> 0, CRTC_ID |-> 0]]
  ELSE IF i \in Kact(c) THEN Override(e, OnlyListed(e, [ACTIVE |-> 0, MODE_ID |-> 0]))
  ELSE IF i \in I206(c) /\ Kact(c) # {} THEN
         Override(e, IF Has(e, "MODE_ID") \/ Kblob(c) # 0
                     THEN [ACTIVE |-> 1, MODE_ID |-> Kblob(c)] ELSE [ACTIVE |-> 1])
  ELSE IF i \in Iconn(c) THEN Override(e, [CRTC_ID |-> CRTC])
  ELSE e

Touched(c, i) ==
  \/ c.objs[i].id \in Halves
  \/ DoSplit(c) /\ (i \in Areal(c) \cup Kact(c) \cup Iconn(c) \/ (i \in I206(c) /\ Kact(c) # {}))

Dropped(c) ==
  {i \in Pos(c) : \/ i \in Virtual(c)
                  \/ Evdrop(c) /\ OffCrtc(c.objs[i])
                  \/ ~Touched(c, i) /\ Idle(c.objs[i])}

(* What is appended: the halves that were not listed, and crtc 206 when kwin *)
(* lit another one and did not list it.                                      *)
MissingHalf(c, id) == \A i \in Pos(c) : c.objs[i].id # id
Missing206(c)      == Kact(c) # {} /\ I206(c) = {} /\ Kblob(c) # 0

New(c, k) == IF k = 3 THEN [id |-> CRTC, p |-> [ACTIVE |-> 1, MODE_ID |-> Kblob(c)]]
             ELSE Half(<<L, R>>[k], Fb(c))

\* Faulty variants: 206 is not appended; the loop stops at one half.
AppendedHalvesOnly(c) == {k \in {1, 2} : MissingHalf(c, <<L, R>>[k])}
AppendedOneHalf(c)    == {k \in {1} : MissingHalf(c, L)} \cup {k \in {3} : Missing206(c)}

Appended(c) == {k \in {1, 2} : MissingHalf(c, <<L, R>>[k])} \cup {k \in {3} : Missing206(c)}

Last(c) == Max(Pos(c))

Rewrite(c) ==
  IF TooLong(c) \/ NothingToSteal(c) THEN c.objs
  ELSE IF ~DoSplit(c) THEN [i \in Pos(c) \ Dropped(c) |-> c.objs[i]]
  ELSE [i \in (Pos(c) \ Dropped(c)) \cup {Last(c) + k : k \in Appended(c)} |->
          IF i \in Pos(c) THEN Rehomed(c, i) ELSE New(c, i - Last(c))]

-----------------------------------------------------------------------------
(* kwin, the tracer and the kernel. *)
(* After the pre-disable commit of kwinwrap everything is off (kwinwrap.c:1187-1199). *)
Init ==
  /\ objs = <<>> /\ asked = <<>> /\ kind = "test" /\ phase = "build" /\ count = 0
  /\ kern = [id \in Ids |-> [n \in KProps |-> 0]]

(* Entries in the order a client writes them: planes, then crtcs, then the   *)
(* connector; no object twice; both halves or none.                          *)
Rank(e) == IF IsCrtc(e) THEN 2
           ELSE IF IsConn(e) THEN 3 ELSE IF e.id \in Halves THEN 1 ELSE 0

Add(e) ==
  /\ phase = "build" /\ count < MaxCommits /\ Len(asked) < MaxEntries
  /\ \A i \in DOMAIN objs : objs[i].id # e.id /\ Rank(objs[i]) <= Rank(e)
  /\ asked' = Append(asked, e)
  /\ objs' = asked'
  /\ UNCHANGED <<kind, phase, kern, count>>

Listed(id) == \E i \in DOMAIN objs : objs[i].id = id

Current(k) == [kind |-> k, objs |-> objs, cur |-> kern[CRTC]["MODE_ID"]]

Submit(k) ==
  /\ phase = "build" /\ objs # <<>> /\ Listed(L) = Listed(R)
  /\ objs' = Rewrite(Current(k))
  /\ kind' = k
  /\ phase' = "sent"
  /\ UNCHANGED <<asked, kern, count>>

(* EINTR or EAGAIN: libdrm issues the same ioctl on the same memory again,   *)
(* and the wrapper rewrites it again.                                        *)
Again ==
  /\ phase = "sent"
  /\ objs' = Rewrite(Current(kind))
  /\ UNCHANGED <<kind, asked, phase, kern, count>>

Merge(k, s) ==
  [id \in Ids |-> [n \in KProps |->
     LET set == {i \in DOMAIN s : s[i].id = id /\ Has(s[i], n)}
     IN  IF set = {} THEN k[id][n] ELSE s[Max(set)].p[n]]]

Finish(result) ==
  /\ phase = "sent"
  /\ kern' = IF result = "accept" /\ kind # "test" THEN Merge(kern, objs) ELSE kern
  /\ objs' = <<>> /\ asked' = <<>> /\ kind' = "test"
  /\ count' = count + 1
  /\ phase' = IF count' < MaxCommits THEN "build" ELSE "done"

Next == \/ \E e \in Entries : Add(e)
        \/ \E k \in Kinds : Submit(k)
        \/ Again
        \/ \E result \in {"accept", "refuse"} : Finish(result)

Spec == Init /\ [][Next]_vars

-----------------------------------------------------------------------------
(* Properties of what the kernel is given.                                   *)
Asked == [kind |-> kind, objs |-> asked, cur |-> kern[CRTC]["MODE_ID"]]
Sent  == phase = "sent" /\ ~TooLong(Asked)
SentSplit == Sent /\ DoSplit(Asked)

\* kwin drives one output: it turns on one real plane and one other crtc at most.
OneOutput == Cardinality(Active(Asked)) <= 1 /\ Cardinality(Lit(Asked)) <= 1
Of(id)    == {i \in DOMAIN objs : objs[i].id = id}

(* A commit that carries a framebuffer reaches the kernel with both halves   *)
(* of the panel on crtc 206, both showing the same framebuffer, one that     *)
(* kwin asked to have shown; no other plane scans out, no plane is named     *)
(* twice and no virtual one at all; also after a retry.  (With two real      *)
(* planes on, a retry would take the second one's.)                          *)
HalvesDrivePanel ==
  SentSplit /\ OneOutput =>
    /\ \A id \in Halves : \E i \in Of(id) : Of(id) = {i} /\ objs[i] = Half(id, Fb(Asked))
    /\ \E i \in DOMAIN asked : Val(asked[i], "FB_ID") = Fb(Asked)
    /\ \A i \in DOMAIN objs : Has(objs[i], "CRTC_ID") =>
         /\ Val(objs[i], "FB_ID") # 0 => objs[i].id \in Halves
         /\ objs[i].id \notin VIRT /\ Of(objs[i].id) = {i}

(* When kwin lights another crtc, the other is shut down, the connector goes *)
(* to 206, and 206 is lit in the mode meant for the other.  The last is not  *)
(* so for a flip that lists 206 as off, and for no other commit: that entry  *)
(* is dropped before it would be re-homed, and 206 stays as it is.           *)
GivesWay(c) ==
  /\ \A k \in Kact(c) : \A i \in Of(c.objs[k].id) : Val(objs[i], "ACTIVE") = 0
  /\ \A i \in Of(CONN) : Has(objs[i], "CRTC_ID") => objs[i].p["CRTC_ID"] = CRTC

Lit206(c) ==
  \E i \in Of(CRTC) : Val(objs[i], "ACTIVE") = 1 /\ Val(objs[i], "MODE_ID") = Kblob(c)

PanelTakesOver ==
  SentSplit /\ OneOutput /\ Kact(Asked) # {} =>
    /\ GivesWay(Asked)
    /\ \/ Lit206(Asked)
       \/ Kblob(Asked) = 0
       \/ kind = "flip" /\ \E i \in I206(Asked) : OffCrtc(asked[i])

(* Issuing a rewritten commit again, as libdrm does after EINTR, leaves both *)
(* halves, crtc 206, the connector and the order of the entries as they      *)
(* were, although the wrapper rewrites the rewritten commit.  The second     *)
(* rewriting can only lose entries that turn something off.                  *)
RetryKeepsPanel ==
  [][Again /\ OneOutput =>
       LET off(e) == e.id \notin Halves /\ (Idle(e) \/ (kind = "flip" /\ OffCrtc(e)))
       IN  \/ objs' = objs
           \/ objs' = [i \in {j \in DOMAIN objs : ~off(objs[j])} |-> objs[i]]]_vars

(* After any sequence of commits the two halves of the panel show the same   *)
(* framebuffer or are off together.                                          *)
HalvesAgree == \A n \in {"FB_ID", "CRTC_ID"} : kern[L][n] = kern[R][n]

(* Whatever planes kwin tries, as long as it drives one output only the      *)
(* halves ever show a framebuffer ("only 157/161 ever got enabled by us"),   *)
(* on which the dropping of idle planes relies (kwinwrap.c:808-811).         *)
OnlyHalvesLit == \A id \in Ids \ Halves : kern[id]["FB_ID"] = 0

(* kwinwrap.c:708-713: "an event on an off pipe fails drm_atomic_crtc_check  *)
(* ... So never carry a crtc that stays off (271's VRR-only no-op entries,   *)
(* kact shutdowns)".                                                         *)
NoOffCrtcInFlip == SentSplit /\ kind = "flip" => \A i \in DOMAIN objs : ~OffCrtc(objs[i])

(* kwinwrap.c:808-811: "Drop no-op plane entries ... these entries cannot    *)
(* change kernel state".                                                     *)
DroppedAreNoops ==
  Sent /\ kind # "test" => \A i \in DOMAIN asked :
            i \in Dropped(Asked) /\ asked[i].id \notin VIRT /\ Idle(asked[i]) =>
              \A n \in DOMAIN asked[i].p \cap KProps : kern[asked[i].id][n] = 0
=============================================================================
