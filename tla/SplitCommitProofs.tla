------------------------ MODULE SplitCommitProofs -------------------------
(* Theorems about SplitCommit and RelayFilter: for any entries kwin may     *)
(* combine, commits of any length, and any number of commits and retries.   *)
EXTENDS RelayFilter, TLAPS, FiniteSetTheorems

-----------------------------------------------------------------------------
(* First and last places.                                                   *)
LEMMA Least ==
  ASSUME NEW T \in SUBSET Nat, T # {}
  PROVE  \E n \in T : \A m \in T : n <= m
<1> DEFINE Order == StrictSubsetOrdering(Nat)
           Finite == FiniteSubsetsOf(Nat)
           G == {0 .. n : n \in T}
<1>1. IsWellFoundedOn(Order, Finite)
  BY FS_StrictSubsetOrderingWellFounded
<1>2. G \subseteq Finite
  <2>1. \A n \in T : 0 .. n \in SUBSET Nat /\ IsFiniteSet(0 .. n)
    BY FS_Interval
  <2>2. QED
    BY <2>1 DEF FiniteSubsetsOf
<1>3. G # {}
  OBVIOUS
<1>4. PICK x \in G : \A y \in G : <<y, x>> \notin Order
  <2> HIDE DEF Order, Finite, G
  <2>1. QED
    BY <1>1, <1>2, <1>3, WFMin
<1>5. PICK n \in T : x = 0 .. n
  BY <1>4
<1>6. ASSUME NEW m \in T, ~(n <= m) PROVE FALSE
  <2>1. 0 .. m \in G /\ 0 .. m \subseteq 0 .. n /\ 0 .. m # 0 .. n
    BY <1>6
  <2>2. <<0 .. m, 0 .. n>> \in Order
    BY <2>1 DEF StrictSubsetOrdering
  <2>3. QED
    BY <1>4, <1>5, <2>1, <2>2
<1>7. QED
  BY <1>6

LEMMA MinPicks == ASSUME NEW S \in SUBSET Nat, S # {} PROVE Min(S) \in S
BY Least DEF Min

LEMMA MaxPicks ==
  ASSUME NEW S \in SUBSET Nat, S # {}, NEW n \in Nat, \A i \in S : i <= n
  PROVE  Max(S) \in S /\ \A i \in S : i <= Max(S)
<1> DEFINE T == {n - i : i \in S}
<1>1. T \in SUBSET Nat /\ T # {}
  <2>1. \A i \in S : n - i \in Nat
    OBVIOUS
  <2>2. QED
    BY <2>1
<1>2. PICK k \in T : \A j \in T : k <= j
  <2> HIDE DEF T
  <2>1. QED
    BY <1>1, Least
<1>3. PICK m \in S : k = n - m
  BY <1>2
<1>4. \A i \in S : i <= m
  BY <1>2, <1>3
<1>5. QED
  BY <1>4 DEF Max

Single(S) == \A x, y \in S : x = y

LEMMA AtMostOne ==
  ASSUME NEW S, IsFiniteSet(S), Cardinality(S) <= 1
  PROVE  Single(S)
<1> SUFFICES ASSUME NEW x \in S, NEW y \in S, x # y PROVE FALSE
  BY DEF Single
<1>1. IsFiniteSet({x}) /\ Cardinality({x}) = 1
  BY FS_Singleton
<1>2. IsFiniteSet({x, y}) /\ Cardinality({x, y}) = 2
  <2>1. {x, y} = {x} \cup {y} /\ y \notin {x}
    OBVIOUS
  <2>2. IsFiniteSet({x} \cup {y}) /\ Cardinality({x} \cup {y}) = Cardinality({x}) + 1
    BY <1>1, <2>1, FS_AddElement
  <2>3. QED
    BY <1>1, <2>1, <2>2
<1>3. Cardinality({x, y}) <= Cardinality(S)
  BY FS_Subset
<1>4. Cardinality(S) \in Nat
  BY FS_CardinalityType
<1>5. QED
  BY <1>2, <1>3, <1>4

-----------------------------------------------------------------------------
(* The inventory of a commit.                                               *)

(* A commit as kwin builds it, and one with places left empty.              *)
Commit(s) == /\ s \in Seq(Entries)
             /\ \A i, j \in DOMAIN s : s[i].id = s[j].id => i = j
Paired(s) == (\E i \in DOMAIN s : s[i].id = L) <=> (\E i \in DOMAIN s : s[i].id = R)
Placed(s) == DOMAIN s \in SUBSET Nat /\ \E n \in Nat : \A i \in DOMAIN s : i <= n

Untouched(c) == TooLong(c) \/ NothingToSteal(c)

LEMMA CommitPlaced == ASSUME NEW s, Commit(s) PROVE Placed(s)
<1>1. s \in Seq(Entries)
  BY DEF Commit
<1>2. DOMAIN s = 1 .. Len(s) /\ Len(s) \in Nat
  BY <1>1
<1>3. QED
  BY <1>2 DEF Placed

LEMMA PlacedFinite ==
  ASSUME NEW s, Placed(s), NEW S \in SUBSET DOMAIN s
  PROVE  IsFiniteSet(S)
BY FS_BoundedSetOfNaturals DEF Placed

LEMMA EntryKinds ==
  ASSUME NEW s, Commit(s), NEW i \in DOMAIN s
  PROVE  /\ s[i] \in Entries
         /\ s[i].id \in Nat /\ s[i].id # 0
         /\ DOMAIN s[i].p # {} /\ \A n \in DOMAIN s[i].p : s[i].p[n] \in Nat
         /\ IsConn(s[i]) \/ IsCrtc(s[i]) \/ IsPlane(s[i])
<1>1. s[i] \in Entries
  BY DEF Commit
<1>2. QED
  BY <1>1, EntriesAssumption

(* The first and last of the code's loops are entries of the commit.        *)
LEMMA Found ==
  ASSUME NEW c, Placed(c.objs)
  PROVE  /\ P97(c) \subseteq Virtual(c) /\ (Virtual(c) # {} => P97(c) # {})
         /\ Areal(c) \subseteq Active(c) /\ (Active(c) # {} => Areal(c) # {})
         /\ Kact(c) \subseteq Lit(c) /\ (Lit(c) # {} => Kact(c) # {})
         /\ Single(P97(c)) /\ Single(Areal(c)) /\ Single(Kact(c))
<1>1. Virtual(c) \in SUBSET Nat /\ Active(c) \in SUBSET Nat /\ Lit(c) \in SUBSET Nat
  BY DEF Placed, Pos, Virtual, Active, Lit, Other
<1>2. P97(c) \subseteq Virtual(c)
  BY <1>1, MinPicks DEF P97
<1>3. Areal(c) \subseteq Active(c)
  BY <1>1, MinPicks DEF Areal
<1>4. Kact(c) \subseteq Lit(c)
  <2>1. PICK n \in Nat : \A i \in DOMAIN c.objs : i <= n
    BY DEF Placed
  <2>2. \A i \in Lit(c) : i <= n
    BY <2>1 DEF Lit, Pos
  <2>3. Lit(c) # {} => Max(Lit(c)) \in Lit(c)
    BY <1>1, <2>2, MaxPicks
  <2>4. QED
    BY <2>3 DEF Kact
<1>5. QED
  BY <1>2, <1>3, <1>4 DEF P97, Areal, Kact, Single

(* The framebuffer comes out of the commit.                                 *)
LEMMA FbFrom ==
  ASSUME NEW c, Placed(c.objs), DoSplit(c)
  PROVE  /\ \E i \in Pos(c) : Val(c.objs[i], "FB_ID") = Fb(c)
         /\ ~NothingToSteal(c)
<1> DEFINE virt == {i \in P97(c) : Val(c.objs[i], "FB_ID") # 0}
           from == IF virt # {} THEN virt ELSE Areal(c)
<1>1. Fb(c) = IF from = {} THEN 0 ELSE Val(c.objs[CHOOSE i \in from : TRUE], "FB_ID")
  BY DEF Fb
<1>2. from # {}
  BY <1>1 DEF DoSplit
<1>3. from \subseteq P97(c) \cup Areal(c)
  OBVIOUS
<1>4. P97(c) \cup Areal(c) \subseteq Pos(c)
  BY Found DEF Virtual, Active, Other
<1> HIDE DEF from
<1>5. (CHOOSE i \in from : TRUE) \in from
  BY <1>2
<1>6. QED
  BY <1>1, <1>2, <1>3, <1>4, <1>5 DEF NothingToSteal

(* Without a virtual plane it is that of the first active one.              *)
LEMMA FbActive ==
  ASSUME NEW c, Placed(c.objs), Virtual(c) = {}
  PROVE  /\ Active(c) = {} => Fb(c) = 0
         /\ Active(c) # {} => \E i \in Active(c) : Fb(c) = Val(c.objs[i], "FB_ID")
<1>1. P97(c) = {}
  BY DEF P97
<1>2. Fb(c) = IF Areal(c) = {} THEN 0 ELSE Val(c.objs[CHOOSE i \in Areal(c) : TRUE], "FB_ID")
  BY <1>1 DEF Fb
<1>3. CASE Active(c) = {}
  BY <1>2, <1>3 DEF Areal
<1>4. CASE Active(c) # {}
  <2>1. Areal(c) # {} /\ Areal(c) \subseteq Active(c)
    BY <1>4, Found
  <2>2. (CHOOSE i \in Areal(c) : TRUE) \in Areal(c)
    BY <2>1
  <2>3. QED
    BY <1>2, <1>4, <2>1, <2>2
<1>5. QED
  BY <1>3, <1>4

(* kwin shows something on a plane exactly with a framebuffer.              *)
LEMMA NothingActive ==
  ASSUME NEW c, Commit(c.objs), ~DoSplit(c)
  PROVE  Active(c) = {}
<1> SUFFICES ASSUME Active(c) # {} PROVE FALSE
  OBVIOUS
<1>1. Placed(c.objs)
  BY CommitPlaced
<1> DEFINE virt == {i \in P97(c) : Val(c.objs[i], "FB_ID") # 0}
<1>2. virt = {}
  <2> SUFFICES ASSUME virt # {} PROVE FALSE
    OBVIOUS
  <2>1. Fb(c) = Val(c.objs[CHOOSE i \in virt : TRUE], "FB_ID")
    BY DEF Fb
  <2>2. (CHOOSE i \in virt : TRUE) \in virt
    OBVIOUS
  <2>3. QED
    BY <2>1, <2>2 DEF DoSplit
<1>3. Areal(c) # {} /\ Areal(c) \subseteq Active(c)
  BY <1>1, Found
<1> DEFINE a == CHOOSE i \in Areal(c) : TRUE
<1>4. a \in Active(c)
  BY <1>3
<1>5. Fb(c) = Val(c.objs[a], "FB_ID")
  BY <1>2, <1>3 DEF Fb
<1> HIDE DEF a
<1>6. a \in DOMAIN c.objs /\ Has(c.objs[a], "FB_ID") /\ Val(c.objs[a], "CRTC_ID") # 0
  BY <1>4 DEF Active, Other, Pos
<1>7. IsPlane(c.objs[a])
  BY <1>6, EntryKinds DEF IsConn, IsCrtc, CrtcProps, Has
<1>8. Val(c.objs[a], "FB_ID") # 0
  BY <1>6, <1>7 DEF IsPlane, Val, Has
<1>9. QED
  BY <1>5, <1>8 DEF DoSplit

-----------------------------------------------------------------------------
(* What the kernel is given for a commit with a framebuffer.                *)
HalfIn(e, f) == e.id \in Halves /\ e = Half(e.id, f)
ConnIn(e)    == /\ e.id = CONN /\ DOMAIN e.p \cap (CrtcProps \cup {"FB_ID"}) = {}
                /\ Has(e, "CRTC_ID") => e.p["CRTC_ID"] = CRTC
CrtcIn(e)    == /\ e.id \notin VIRT \cup Halves \cup {CONN} /\ DOMAIN e.p \subseteq CrtcProps
                /\ e.id # CRTC => Val(e, "ACTIVE") = 0
OffIn(e)     == /\ e.id \notin VIRT \cup Halves \cup {CONN, CRTC}
                /\ DOMAIN e.p \cap CrtcProps = {}
                /\ Val(e, "FB_ID") = 0 /\ Val(e, "CRTC_ID") = 0
Fits(e, f)   == HalfIn(e, f) \/ ConnIn(e) \/ CrtcIn(e) \/ OffIn(e)

Split(s, f) ==
  /\ \A id \in Halves : \E i \in DOMAIN s : s[i].id = id
  /\ \A i \in DOMAIN s : Fits(s[i], f)
  /\ \A i, j \in DOMAIN s : s[i].id = s[j].id => i = j \/ s[i].id = CRTC

(* Crtc 206 takes over from the one kwin lit, but for the exception of      *)
(* PanelTakesOver.                                                          *)
Lights206(s, c) ==
  Kact(c) # {} /\ Kblob(c) # 0 =>
    \/ c.kind = "flip" /\ \E i \in I206(c) : OffCrtc(c.objs[i])
    \/ \E i \in DOMAIN s : /\ s[i].id = CRTC
                           /\ Val(s[i], "ACTIVE") = 1 /\ Val(s[i], "MODE_ID") = Kblob(c)

LEMMA KeptFits ==
  ASSUME NEW c, Commit(c.objs), Single(Active(c)), Single(Lit(c)), NEW i \in Pos(c) \ Virtual(c)
  PROVE  Rehomed(c, i).id = c.objs[i].id /\ Fits(Rehomed(c, i), Fb(c))
<1> DEFINE e == c.objs[i]
<1>1. i \in DOMAIN c.objs /\ e.id \notin VIRT
  BY DEF Pos, Virtual
<1>2. /\ DOMAIN e.p # {} /\ \A n \in DOMAIN e.p : e.p[n] \in Nat
      /\ IsConn(e) \/ IsCrtc(e) \/ IsPlane(e)
  BY <1>1, EntryKinds
<1>3. /\ Active(c) = Areal(c) /\ Lit(c) = Kact(c)
  BY CommitPlaced, Found DEF Single
<1>4. CASE e.id \in Halves
  <2>1. Rehomed(c, i) = Half(e.id, Fb(c))
    BY <1>4 DEF Rehomed
  <2>2. QED
    BY <1>4, <2>1 DEF Half, Fits, HalfIn
<1>5. CASE e.id \notin Halves /\ IsPlane(e)
  <2>1. i \in Other(c) /\ i \notin Kact(c) /\ i \notin I206(c) /\ i \notin Iconn(c)
    BY <1>1, <1>3, <1>5 DEF Other, Lit, I206, Iconn, IsPlane, Has, Val, CrtcProps
  <2>2. CASE i \in Areal(c)
    <3>1. Rehomed(c, i) = [id |-> e.id, p |-> [FB_ID |-> 0, CRTC_ID |-> 0]]
      BY <1>5, <2>2 DEF Rehomed
    <3>2. QED
      BY <1>1, <1>5, <3>1 DEF Fits, OffIn, IsPlane, Has, Val, CrtcProps
  <2>3. CASE i \notin Areal(c)
    <3>1. Rehomed(c, i) = e
      BY <1>5, <2>1, <2>3 DEF Rehomed
    <3>2. Val(e, "CRTC_ID") = 0
      BY <1>3, <1>5, <2>1, <2>3 DEF Active, IsPlane, Has
    <3>3. QED
      BY <1>1, <1>5, <3>1, <3>2 DEF Fits, OffIn, IsPlane, Has, Val
  <2>4. QED
    BY <2>2, <2>3
<1>6. CASE IsConn(e)
  <2>1. /\ e.id \notin Halves /\ i \in Other(c)
        /\ i \notin Areal(c) /\ i \notin Kact(c) /\ i \notin I206(c)
    BY <1>1, <1>3, <1>6
       DEF Other, Lit, I206, Active, IsConn, Has, Val, CrtcProps, CONN, CRTC, Halves, L, R
  <2>2. CASE i \in Iconn(c)
    <3>1. Rehomed(c, i) = Override(e, [CRTC_ID |-> CRTC])
      BY <2>1, <2>2 DEF Rehomed
    <3>2. QED
      BY <1>6, <3>1 DEF Override, Fits, ConnIn, IsConn, Has, CrtcProps
  <2>3. CASE i \notin Iconn(c)
    <3>1. Rehomed(c, i) = e
      BY <2>1, <2>3 DEF Rehomed
    <3>2. QED
      BY <1>6, <2>1, <2>3, <3>1 DEF Iconn, Fits, ConnIn, IsConn, Has, CrtcProps
  <2>4. QED
    BY <2>2, <2>3
<1>7. CASE IsCrtc(e)
  <2>1. e.id \notin Halves /\ i \notin Areal(c) /\ i \notin Iconn(c)
    BY <1>3, <1>7 DEF Active, Iconn, IsCrtc, Has, CrtcProps, Other
  <2>2. CASE i \in Kact(c)
    <3>1. Rehomed(c, i) = Override(e, OnlyListed(e, [ACTIVE |-> 0, MODE_ID |-> 0]))
      BY <2>1, <2>2 DEF Rehomed
    <3>2. Has(e, "ACTIVE")
      BY <1>3, <2>2 DEF Lit, Val, Has
    <3>3. QED
      BY <1>7, <3>1, <3>2 DEF Override, OnlyListed, Fits, CrtcIn, IsCrtc, Has, Val, CrtcProps
  <2>3. CASE i \notin Kact(c) /\ i \in I206(c) /\ Kact(c) # {}
    <3>1. PICK new \in {[ACTIVE |-> 1, MODE_ID |-> Kblob(c)], [ACTIVE |-> 1]} :
            Rehomed(c, i) = Override(e, new)
      BY <2>1, <2>3 DEF Rehomed
    <3>2. DOMAIN new \subseteq CrtcProps
      BY DEF CrtcProps
    <3>3. e.id = CRTC
      BY <2>3 DEF I206
    <3>4. QED
      BY <1>7, <3>1, <3>2, <3>3 DEF Override, Fits, CrtcIn, IsCrtc
  <2>4. CASE i \notin Kact(c) /\ (i \notin I206(c) \/ Kact(c) = {})
    <3>1. Rehomed(c, i) = e
      BY <2>1, <2>4 DEF Rehomed
    <3>2. e.id # CRTC => Val(e, "ACTIVE") = 0
      BY <1>3, <2>4 DEF Lit, I206
    <3>3. QED
      BY <1>7, <3>1, <3>2 DEF Fits, CrtcIn, IsCrtc
  <2>5. QED
    BY <2>2, <2>3, <2>4
<1>8. QED
  BY <1>2, <1>4, <1>5, <1>6, <1>7

LEMMA HalvesKept ==
  ASSUME NEW c, Commit(c.objs), NEW i \in Pos(c), c.objs[i].id \in Halves
  PROVE  i \notin Dropped(c)
<1> DEFINE e == c.objs[i]
<1>1. i \notin Virtual(c)
  BY DEF Virtual, VIRT, Halves, L, R
<1>2. IsPlane(e)
  BY EntryKinds DEF Pos, IsConn, IsCrtc, Halves, L, R, CONN
<1>3. ~OffCrtc(e)
  BY <1>2 DEF OffCrtc, IsPlane
<1>4. Touched(c, i)
  BY DEF Touched
<1>5. QED
  BY <1>1, <1>3, <1>4 DEF Dropped

(* Where the entries of a rewritten commit come from.                       *)
LEMMA Added ==
  ASSUME NEW c, Placed(c.objs), DoSplit(c), ~Untouched(c)
  PROVE  LET s == Rewrite(c) IN
    /\ DOMAIN s = (Pos(c) \ Dropped(c)) \cup {Last(c) + k : k \in Appended(c)}
    /\ Last(c) \in Nat /\ \A i \in Pos(c) : i <= Last(c)
    /\ \A i \in Pos(c) \ Dropped(c) : s[i] = Rehomed(c, i)
    /\ \A k \in Appended(c) : s[Last(c) + k] = New(c, k)
    /\ Appended(c) \subseteq {1, 2, 3}
<1> DEFINE s == Rewrite(c)
<1>1. s = [i \in (Pos(c) \ Dropped(c)) \cup {Last(c) + k : k \in Appended(c)} |->
             IF i \in Pos(c) THEN Rehomed(c, i) ELSE New(c, i - Last(c))]
  BY DEF Rewrite, Untouched
<1>2. Last(c) \in Nat /\ \A i \in Pos(c) : i <= Last(c)
  <2>1. Pos(c) # {}
    BY DEF Untouched, NothingToSteal, P97, Areal, Kact, Iconn, Virtual, Active, Lit, Other
  <2>2. PICK n \in Nat : \A i \in Pos(c) : i <= n
    BY DEF Placed, Pos
  <2>3. QED
    BY <2>1, <2>2, MaxPicks DEF Placed, Pos, Last
<1>3. Appended(c) \subseteq {1, 2, 3}
  BY DEF Appended
<1>4. \A k \in Appended(c) : Last(c) + k \notin Pos(c) /\ (Last(c) + k) - Last(c) = k
  BY <1>2, <1>3
<1>5. QED
  BY <1>1, <1>2, <1>3, <1>4

LEMMA NewFits ==
  ASSUME NEW c, NEW k \in Appended(c)
  PROVE  Fits(New(c, k), Fb(c))
<1>1. CASE k \in {1, 2}
  <2>1. <<L, R>>[k] \in Halves
    BY <1>1 DEF Halves
  <2>2. New(c, k) = Half(<<L, R>>[k], Fb(c))
    BY <1>1 DEF New
  <2>3. QED
    BY <2>1, <2>2 DEF Half, Fits, HalfIn
<1>2. CASE k = 3
  BY <1>2 DEF New, Fits, CrtcIn, VIRT, Halves, L, R, CONN, CRTC, CrtcProps
<1>3. QED
  BY <1>1, <1>2 DEF Appended

LEMMA FirstSplit ==
  ASSUME NEW c, Commit(c.objs), Single(Active(c)), Single(Lit(c)), DoSplit(c), ~Untouched(c)
  PROVE  Split(Rewrite(c), Fb(c)) /\ Lights206(Rewrite(c), c)
<1> DEFINE s == Rewrite(c)
           kept == Pos(c) \ Dropped(c)
<1>1. /\ DOMAIN s = kept \cup {Last(c) + k : k \in Appended(c)}
      /\ Last(c) \in Nat /\ \A i \in Pos(c) : i <= Last(c)
      /\ \A i \in kept : s[i] = Rehomed(c, i)
      /\ \A k \in Appended(c) : s[Last(c) + k] = New(c, k)
      /\ Appended(c) \subseteq {1, 2, 3}
  BY CommitPlaced, Added
<1> HIDE DEF s
<1>2. \A i \in kept : i \in Pos(c) \ Virtual(c)
  BY DEF Dropped
<1>3. \A i \in kept : s[i].id = c.objs[i].id /\ Fits(s[i], Fb(c))
  BY <1>1, <1>2, KeptFits
<1>4. \A k \in Appended(c) : /\ Fits(s[Last(c) + k], Fb(c))
                             /\ k = 1 => s[Last(c) + k].id = L
                             /\ k = 2 => s[Last(c) + k].id = R
                             /\ k = 3 => s[Last(c) + k].id = CRTC
  <2> SUFFICES ASSUME NEW k \in Appended(c)
               PROVE  /\ Fits(New(c, k), Fb(c))
                      /\ k = 1 => New(c, k).id = L
                      /\ k = 2 => New(c, k).id = R
                      /\ k = 3 => New(c, k).id = CRTC
    BY <1>1
  <2>1. Fits(New(c, k), Fb(c))
    BY NewFits
  <2>2. QED
    BY <2>1 DEF New, Half
<1>5. \A id \in Halves : \E i \in DOMAIN s : s[i].id = id
  <2> SUFFICES ASSUME NEW id \in Halves PROVE \E i \in DOMAIN s : s[i].id = id
    OBVIOUS
  <2>1. CASE MissingHalf(c, id)
    <3>1. CASE id = L
      <4>1. 1 \in Appended(c)
        BY <2>1, <3>1 DEF Appended
      <4>2. QED
        BY <1>1, <1>4, <3>1, <4>1
    <3>2. CASE id = R
      <4>1. 2 \in Appended(c)
        BY <2>1, <3>2 DEF Appended
      <4>2. QED
        BY <1>1, <1>4, <3>2, <4>1
    <3>3. QED
      BY <3>1, <3>2 DEF Halves
  <2>2. CASE ~MissingHalf(c, id)
    <3>1. PICK i \in Pos(c) : c.objs[i].id = id
      BY <2>2 DEF MissingHalf
    <3>2. i \in kept
      BY <3>1, HalvesKept
    <3>3. QED
      BY <1>1, <1>3, <3>1, <3>2
  <2>3. QED
    BY <2>1, <2>2
<1>6. \A i \in DOMAIN s : Fits(s[i], Fb(c))
  BY <1>1, <1>3, <1>4
<1>7. ASSUME NEW i \in DOMAIN s, NEW j \in DOMAIN s, s[i].id = s[j].id, s[i].id # CRTC
      PROVE  i = j
  <2>1. CASE i \in kept /\ j \in kept
    BY <1>3, <1>7, <2>1 DEF Commit, Pos
  <2>2. ASSUME NEW m \in kept, NEW k \in Appended(c), k # 3
        PROVE  s[m].id # s[Last(c) + k].id
    <3>1. MissingHalf(c, <<L, R>>[k]) /\ k \in {1, 2}
      BY <1>1, <2>2 DEF Appended
    <3>2. s[Last(c) + k].id = <<L, R>>[k]
      BY <1>4, <3>1
    <3>3. s[m].id # <<L, R>>[k]
      BY <1>3, <3>1 DEF MissingHalf
    <3>4. QED
      BY <3>2, <3>3
  <2>3. CASE i \in kept /\ j \notin kept
    BY <1>1, <1>4, <1>7, <2>2, <2>3
  <2>4. CASE i \notin kept /\ j \in kept
    BY <1>1, <1>4, <1>7, <2>2, <2>4
  <2>5. CASE i \notin kept /\ j \notin kept
    <3>1. PICK k \in Appended(c) : i = Last(c) + k
      BY <1>1, <2>5
    <3>2. PICK m \in Appended(c) : j = Last(c) + m
      BY <1>1, <2>5
    <3>3. k \in {1, 2} /\ m \in {1, 2}
      BY <1>1, <1>4, <1>7, <3>1, <3>2
    <3>4. k = m
      BY <1>4, <1>7, <3>1, <3>2, <3>3 DEF L, R
    <3>5. QED
      BY <3>1, <3>2, <3>4
  <2>6. QED
    BY <2>1, <2>3, <2>4, <2>5
<1>8. ASSUME Kact(c) # {}, Kblob(c) # 0,
             ~(c.kind = "flip" /\ \E i \in I206(c) : OffCrtc(c.objs[i]))
      PROVE  \E i \in DOMAIN s : /\ s[i].id = CRTC
                                 /\ Val(s[i], "ACTIVE") = 1 /\ Val(s[i], "MODE_ID") = Kblob(c)
  <2>1. CASE I206(c) = {}
    <3>1. 3 \in Appended(c)
      BY <1>8, <2>1 DEF Appended, Missing206
    <3>2. New(c, 3) = [id |-> CRTC, p |-> [ACTIVE |-> 1, MODE_ID |-> Kblob(c)]]
      BY DEF New
    <3>3. QED
      BY <1>1, <3>1, <3>2 DEF Val, Has
  <2>2. CASE I206(c) # {}
    <3>1. PICK i \in I206(c) : TRUE
      BY <2>2
    <3>2. i \in Pos(c) \ Virtual(c) /\ c.objs[i].id = CRTC /\ Has(c.objs[i], "ACTIVE")
      BY <3>1 DEF I206
    <3>3. Touched(c, i)
      BY <1>8, <3>1 DEF Touched
    <3>4. i \in kept
      BY <1>8, <3>1, <3>2, <3>3 DEF Dropped, Evdrop
    <3>5. i \notin Areal(c) /\ i \notin Kact(c) /\ c.objs[i].id \notin Halves
      <4>1. i \notin Lit(c) /\ i \notin Active(c)
        BY <3>1 DEF Lit, Active, Other
      <4>2. QED
        BY <3>2, <4>1, CommitPlaced, Found DEF Halves, L, R, CRTC
    <3>6. Rehomed(c, i) = Override(c.objs[i], [ACTIVE |-> 1, MODE_ID |-> Kblob(c)])
      BY <1>8, <3>1, <3>5 DEF Rehomed
    <3>7. QED
      BY <1>1, <3>2, <3>4, <3>6 DEF Override, Val, Has
  <2>3. QED
    BY <2>1, <2>2
<1>9. QED
  BY <1>5, <1>6, <1>7, <1>8 DEF Split, Lights206, s

(* Rewriting what was rewritten.                                            *)
Off(e, kd) == e.id \notin Halves /\ (Idle(e) \/ (kd = "flip" /\ OffCrtc(e)))
Without(s, kd) == [i \in {j \in DOMAIN s : ~Off(s[j], kd)} |-> s[i]]

LEMMA SplitAgain ==
  ASSUME NEW c, NEW f, f # 0, Placed(c.objs), Split(c.objs, f)
  PROVE  /\ Fb(c) = f /\ Kact(c) = {}
         /\ Rewrite(c) = c.objs \/ Rewrite(c) = Without(c.objs, c.kind)
<1> DEFINE s == c.objs
<1>1. \A i \in Pos(c) : Fits(s[i], f)
  BY DEF Split, Pos
<1>2. Virtual(c) = {}
  BY <1>1 DEF Virtual, Fits, HalfIn, ConnIn, CrtcIn, OffIn, VIRT, Halves, L, R, CONN
<1>3. Lit(c) = {} /\ Kact(c) = {}
  <2>1. \A i \in Pos(c) : i \in I206(c) \/ Val(s[i], "ACTIVE") = 0
    <3> SUFFICES ASSUME NEW i \in Pos(c), i \notin I206(c) PROVE Val(s[i], "ACTIVE") = 0
      OBVIOUS
    <3>1. s[i].id = CRTC => ~Has(s[i], "ACTIVE")
      BY <1>2 DEF I206
    <3>2. CASE HalfIn(s[i], f)
      BY <3>2 DEF HalfIn, Half, Val, Has
    <3>3. CASE ConnIn(s[i]) \/ CrtcIn(s[i]) \/ OffIn(s[i])
      BY <3>1, <3>3 DEF ConnIn, CrtcIn, OffIn, CrtcProps, Val, Has
    <3>4. QED
      BY <1>1, <3>2, <3>3 DEF Fits
  <2>2. QED
    BY <2>1 DEF Lit, Kact
<1>4. Iconn(c) = {}
  <2> SUFFICES ASSUME NEW i \in Iconn(c) PROVE FALSE
    OBVIOUS
  <2>1. i \in Pos(c) /\ s[i].id = CONN /\ Has(s[i], "CRTC_ID") /\ s[i].p["CRTC_ID"] # CRTC
    BY DEF Iconn, Other
  <2>2. ~HalfIn(s[i], f) /\ ~CrtcIn(s[i]) /\ ~OffIn(s[i])
    BY <2>1 DEF HalfIn, CrtcIn, OffIn, Halves, L, R, CONN
  <2>3. QED
    BY <1>1, <2>1, <2>2 DEF Fits, ConnIn
<1>5. \A i \in Active(c) : s[i].id \in Halves /\ s[i] = Half(s[i].id, f)
  <2> SUFFICES ASSUME NEW i \in Active(c) PROVE HalfIn(s[i], f)
    BY DEF HalfIn
  <2>1. i \in Pos(c) /\ s[i].id # CONN /\ Has(s[i], "FB_ID") /\ Val(s[i], "CRTC_ID") # 0
    BY DEF Active, Other
  <2>2. ~ConnIn(s[i]) /\ ~CrtcIn(s[i]) /\ ~OffIn(s[i])
    BY <2>1 DEF ConnIn, CrtcIn, OffIn, CrtcProps, Has
  <2>3. QED
    BY <1>1, <2>1, <2>2 DEF Fits
<1>6. Active(c) # {}
  <2>1. PICK i \in DOMAIN s : s[i].id = L
    BY DEF Split, Halves
  <2>2. s[i] = Half(L, f)
    BY <1>1, <2>1
       DEF Fits, HalfIn, ConnIn, CrtcIn, OffIn, Halves, Pos, L, CONN
  <2>3. i \in Other(c)
    BY <1>2, <1>3, <2>1 DEF Other, I206, Pos, L, CRTC
  <2>4. i \in Active(c)
    BY <2>1, <2>2, <2>3 DEF Active, Half, Has, Val, L, CONN, CRTC
  <2>5. QED
    BY <2>4
<1>7. Fb(c) = f
  <2>1. PICK i \in Active(c) : Fb(c) = Val(s[i], "FB_ID")
    BY <1>2, <1>6, FbActive
  <2>2. \A id : Val(Half(id, f), "FB_ID") = f
    BY DEF Half, Val, Has
  <2>3. s[i] = Half(s[i].id, f)
    BY <1>5
  <2>4. Val(s[i], "FB_ID") = f
    BY <2>2, <2>3, Zenon
  <2>5. QED
    BY <2>1, <2>4
<1>8. \A i \in Pos(c) : Rehomed(c, i) = s[i]
  <2> SUFFICES ASSUME NEW i \in Pos(c) PROVE Rehomed(c, i) = s[i]
    OBVIOUS
  <2>1. CASE s[i].id \in Halves
    <3>1. HalfIn(s[i], f)
      BY <1>1, <2>1 DEF Fits, ConnIn, CrtcIn, OffIn, Halves, L, R, CONN
    <3>2. QED
      BY <1>7, <2>1, <3>1 DEF Rehomed, HalfIn
  <2>2. CASE s[i].id \notin Halves
    <3>1. i \notin Areal(c)
      BY <1>5, <2>2, Found
    <3>2. QED
      BY <1>3, <1>4, <2>2, <3>1 DEF Rehomed
  <2>3. QED
    BY <2>1, <2>2
<1>9. CASE Untouched(c)
  BY <1>3, <1>7, <1>9 DEF Rewrite, Untouched
<1>10. CASE ~Untouched(c)
  <2>1. DoSplit(c)
    BY <1>7 DEF DoSplit
  <2>2. Appended(c) = {}
    <3>1. \A id \in Halves : ~MissingHalf(c, id)
      BY DEF MissingHalf, Split, Pos
    <3>2. ~MissingHalf(c, L) /\ ~MissingHalf(c, R) /\ ~Missing206(c)
      BY <1>3, <3>1 DEF Halves, Missing206
    <3>3. QED
      BY <3>2 DEF Appended
  <2>3. Pos(c) \ Dropped(c) = {j \in DOMAIN s : ~Off(s[j], c.kind)}
    <3>1. ASSUME NEW i \in Pos(c) PROVE i \in Dropped(c) <=> Off(s[i], c.kind)
      <4>1. CASE s[i].id \in Halves
        <5>1. HalfIn(s[i], f)
          BY <1>1, <4>1 DEF Fits, ConnIn, CrtcIn, OffIn, Halves, L, R, CONN
        <5>2. ~OffCrtc(s[i]) /\ Touched(c, i)
          BY <4>1, <5>1 DEF HalfIn, Half, OffCrtc, CrtcProps, Touched
        <5>3. QED
          BY <1>2, <4>1, <5>2 DEF Dropped, Off
      <4>2. CASE s[i].id \notin Halves
        <5>1. i \notin Areal(c)
          BY <1>5, <4>2, Found
        <5>2. ~Touched(c, i)
          BY <1>3, <1>4, <4>2, <5>1 DEF Touched
        <5>3. QED
          BY <1>2, <4>2, <5>2 DEF Dropped, Off, Evdrop
      <4>3. QED
        BY <4>1, <4>2
    <3>2. QED
      BY <3>1 DEF Pos, Dropped
  <2>4. (Pos(c) \ Dropped(c)) \cup {Last(c) + k : k \in Appended(c)} = Pos(c) \ Dropped(c)
    BY <2>2
  <2>5. Rewrite(c) = [i \in Pos(c) \ Dropped(c) |-> s[i]]
    <3>1. Rewrite(c) = [i \in Pos(c) \ Dropped(c) |->
                          IF i \in Pos(c) THEN Rehomed(c, i) ELSE New(c, i - Last(c))]
      BY <1>10, <2>1, <2>4 DEF Rewrite, Untouched
    <3>2. QED
      BY <1>8, <3>1
  <2>6. Rewrite(c) = Without(s, c.kind)
    BY <2>3, <2>5 DEF Without
  <2>7. QED
    BY <1>3, <1>7, <2>6
<1>11. QED
  BY <1>9, <1>10

(* What a second rewriting takes away is not missed.                        *)
LEMMA SplitWithout ==
  ASSUME NEW s, NEW f, NEW kd, Split(s, f)
  PROVE  /\ Split(Without(s, kd), f)
         /\ \A i \in DOMAIN s : s[i].id = CRTC /\ Val(s[i], "ACTIVE") # 0 =>
              i \in DOMAIN Without(s, kd)
<1> DEFINE w == Without(s, kd)
<1>1. /\ DOMAIN w = {j \in DOMAIN s : ~Off(s[j], kd)}
      /\ \A i \in DOMAIN w : w[i] = s[i]
  BY DEF Without
<1> HIDE DEF w
<1>2. \A i \in DOMAIN s : s[i].id \in Halves => i \in DOMAIN w
  BY <1>1 DEF Off
<1>3. Split(w, f)
  BY <1>1, <1>2 DEF Split
<1>4. ASSUME NEW i \in DOMAIN s, s[i].id = CRTC, Val(s[i], "ACTIVE") # 0
      PROVE  i \in DOMAIN w
  <2>1. Has(s[i], "ACTIVE") /\ s[i].p["ACTIVE"] # 0
    BY <1>4 DEF Val
  <2>2. ~OffCrtc(s[i])
    BY <2>1 DEF OffCrtc, CrtcProps, Has
  <2>3. CrtcIn(s[i])
    BY <1>4 DEF Split, Fits, HalfIn, ConnIn, OffIn, Halves, L, R, CONN, CRTC
  <2>4. ~Idle(s[i])
    BY <2>3 DEF CrtcIn, Idle, CrtcProps
  <2>5. QED
    BY <1>1, <2>2, <2>4 DEF Off
<1>5. QED
  BY <1>3, <1>4 DEF w

-----------------------------------------------------------------------------
(* A commit without a framebuffer only loses entries.                       *)
Stripped(s, c) ==
  /\ DOMAIN s \subseteq Pos(c) \ Virtual(c)
  /\ \A i \in DOMAIN s : s[i] = c.objs[i]
  /\ \A i \in Pos(c) : c.objs[i].id \in Halves => i \in DOMAIN s

LEMMA FirstStripped ==
  ASSUME NEW c, Commit(c.objs), ~DoSplit(c), ~Untouched(c)
  PROVE  Stripped(Rewrite(c), c)
<1> DEFINE s == Rewrite(c)
<1>1. s = [i \in Pos(c) \ Dropped(c) |-> c.objs[i]]
  BY DEF Rewrite, Untouched
<1>2. DOMAIN s \subseteq Pos(c) \ Virtual(c) /\ \A i \in DOMAIN s : s[i] = c.objs[i]
  BY <1>1 DEF Dropped
<1>3. \A i \in Pos(c) : c.objs[i].id \in Halves => i \in DOMAIN s
  BY <1>1, HalvesKept
<1>4. QED
  BY <1>2, <1>3 DEF Stripped

LEMMA StrippedAgain ==
  ASSUME NEW c, NEW a, Commit(a.objs), ~DoSplit(a), Stripped(c.objs, a)
  PROVE  /\ ~DoSplit(c)
         /\ Rewrite(c) = c.objs \/ Rewrite(c) = Without(c.objs, c.kind)
         /\ Stripped(Rewrite(c), a)
<1> DEFINE s == c.objs
<1>1. Placed(s)
  BY CommitPlaced DEF Stripped, Placed, Pos
<1>2. \A i \in Pos(c) : i \in Pos(a) \ Virtual(a) /\ s[i] = a.objs[i]
  BY DEF Stripped, Pos
<1>3. Virtual(c) = {}
  BY <1>2 DEF Virtual
<1>4. Active(c) = {}
  <2> SUFFICES ASSUME NEW i \in Active(c) PROVE FALSE
    OBVIOUS
  <2>1. /\ i \in Pos(c) /\ s[i].id # CONN /\ Has(s[i], "FB_ID") /\ Val(s[i], "CRTC_ID") # 0
    BY DEF Active, Other
  <2>2. IsPlane(a.objs[i])
    BY <1>2, <2>1, EntryKinds DEF Pos, IsConn, IsCrtc, Has, CrtcProps
  <2>3. i \in Other(a)
    <3>1. ~Has(a.objs[i], "ACTIVE")
      BY <2>2 DEF IsPlane, Has, CrtcProps
    <3>2. i \notin I206(a) /\ i \notin Lit(a)
      BY <3>1 DEF I206, Lit, Val
    <3>3. QED
      BY <1>2, <2>1, <3>2 DEF Other
  <2>4. i \in Active(a)
    BY <1>2, <2>1, <2>3 DEF Active
  <2>5. QED
    BY <2>4, NothingActive
<1>5. ~DoSplit(c)
  BY <1>1, <1>3, <1>4, FbActive DEF DoSplit
<1>6. CASE Untouched(c)
  BY <1>5, <1>6 DEF Rewrite, Untouched
<1>7. CASE ~Untouched(c)
  <2>1. \A i \in Pos(c) : i \in Dropped(c) <=> Off(s[i], c.kind)
    <3> SUFFICES ASSUME NEW i \in Pos(c) PROVE i \in Dropped(c) <=> Off(s[i], c.kind)
      OBVIOUS
    <3>1. Touched(c, i) <=> s[i].id \in Halves
      BY <1>5 DEF Touched
    <3>2. s[i].id \in Halves => ~OffCrtc(s[i])
      <4>1. ASSUME s[i].id \in Halves PROVE IsPlane(s[i])
        BY <1>2, <4>1, EntryKinds DEF Pos, IsConn, IsCrtc, Halves, L, R, CONN
      <4>2. QED
        BY <4>1 DEF IsPlane, OffCrtc
    <3>3. QED
      BY <1>3, <3>1, <3>2 DEF Dropped, Off, Evdrop
  <2>2. Pos(c) \ Dropped(c) = {j \in DOMAIN s : ~Off(s[j], c.kind)}
    BY <2>1 DEF Pos
  <2>3. Rewrite(c) = Without(s, c.kind)
    BY <1>5, <1>7, <2>2 DEF Rewrite, Untouched, Without
  <2>4. Stripped(Without(s, c.kind), a)
    <3> DEFINE w == Without(s, c.kind)
    <3>1. DOMAIN w = {j \in DOMAIN s : ~Off(s[j], c.kind)} /\ \A i \in DOMAIN w : w[i] = s[i]
      BY DEF Without
    <3> HIDE DEF w
    <3>2. QED
      BY <3>1 DEF Stripped, Off, w
  <2>5. QED
    BY <1>5, <2>3, <2>4
<1>8. QED
  BY <1>6, <1>7

-----------------------------------------------------------------------------
(* The splitter: what is in kwin's memory, while a commit is built and      *)
(* after any number of rewritings.                                          *)
SentInv ==
  IF Untouched(Asked) THEN objs = asked
  ELSE IF DoSplit(Asked) THEN OneOutput => Split(objs, Fb(Asked)) /\ Lights206(objs, Asked)
  ELSE Stripped(objs, Asked)

BuildInv ==
  /\ phase \in {"build", "sent", "done"} /\ count \in Nat
  /\ Commit(asked) /\ Placed(objs)
  /\ phase # "sent" => objs = asked
  /\ phase = "sent" => Paired(asked)

SplitInv == BuildInv /\ (phase = "sent" => SentInv)

LEMMA OneOutputSingle ==
  ASSUME NEW c, Commit(c.objs), Cardinality(Active(c)) <= 1, Cardinality(Lit(c)) <= 1
  PROVE  Single(Active(c)) /\ Single(Lit(c))
<1>1. IsFiniteSet(Active(c)) /\ IsFiniteSet(Lit(c))
  <2>1. Active(c) \subseteq DOMAIN c.objs /\ Lit(c) \subseteq DOMAIN c.objs
    BY DEF Active, Lit, Other, Pos
  <2>2. QED
    BY <2>1, CommitPlaced, PlacedFinite
<1>2. QED
  BY <1>1, AtMostOne

LEMMA RewritePlaced ==
  ASSUME NEW c, Placed(c.objs)
  PROVE  Placed(Rewrite(c))
<1> DEFINE s == Rewrite(c)
<1>1. PICK n \in Nat : \A i \in DOMAIN c.objs : i <= n
  BY DEF Placed
<1>2. CASE Untouched(c)
  BY <1>2 DEF Rewrite, Untouched
<1>3. CASE ~Untouched(c) /\ ~DoSplit(c)
  <2>1. DOMAIN s \subseteq DOMAIN c.objs
    BY <1>3 DEF Rewrite, Untouched, Pos
  <2>2. QED
    BY <1>1, <2>1 DEF Placed
<1>4. CASE ~Untouched(c) /\ DoSplit(c)
  <2>1. /\ DOMAIN s = (Pos(c) \ Dropped(c)) \cup {Last(c) + k : k \in Appended(c)}
        /\ Last(c) \in Nat /\ \A i \in Pos(c) : i <= Last(c)
        /\ Appended(c) \subseteq {1, 2, 3}
    BY <1>4, Added
  <2> HIDE DEF s
  <2>2. \A i \in DOMAIN s : i \in Nat /\ i <= Last(c) + 3
    BY <2>1 DEF Pos, Placed
  <2>3. Last(c) + 3 \in Nat
    BY <2>1
  <2>4. QED
    BY <2>2, <2>3 DEF Placed, s
<1>5. QED
  BY <1>2, <1>3, <1>4

LEMMA AddStep ==
  ASSUME SplitInv, NEW e \in Entries, Add(e)
  PROVE  SplitInv'
<1>1. /\ phase = "build" /\ phase' = phase /\ count' = count
      /\ asked' = Append(asked, e) /\ objs' = asked'
      /\ \A i \in DOMAIN objs : objs[i].id # e.id
  BY DEF Add
<1>2. objs = asked /\ Commit(asked)
  BY <1>1 DEF SplitInv, BuildInv
<1>3. Commit(asked')
  <2>1. asked \in Seq(Entries)
    BY <1>2 DEF Commit
  <2>2. /\ asked' \in Seq(Entries) /\ DOMAIN asked' = 1 .. Len(asked) + 1
        /\ \A i \in DOMAIN asked' : asked'[i] = IF i = Len(asked) + 1 THEN e ELSE asked[i]
    BY <1>1, <2>1
  <2>3. DOMAIN asked = 1 .. Len(asked) /\ Len(asked) \in Nat
    BY <2>1
  <2>4. \A i \in DOMAIN asked' : i # Len(asked) + 1 => i \in DOMAIN asked
    BY <2>2, <2>3
  <2>5. QED
    BY <1>1, <1>2, <2>2, <2>4 DEF Commit
<1>4. Placed(objs')
  BY <1>1, <1>3, CommitPlaced
<1>5. QED
  BY <1>1, <1>3, <1>4 DEF SplitInv, BuildInv

LEMMA SubmitStep ==
  ASSUME SplitInv, NEW k \in Kinds, Submit(k)
  PROVE  SplitInv'
<1>1. /\ phase = "build" /\ phase' = "sent" /\ objs' = Rewrite(Current(k)) /\ kind' = k
      /\ asked' = asked /\ count' = count /\ kern' = kern /\ Listed(L) = Listed(R)
  BY DEF Submit
<1>2. objs = asked /\ Commit(asked)
  BY <1>1 DEF SplitInv, BuildInv
<1>3. Asked' = Current(k) /\ Current(k).objs = asked
  BY <1>1, <1>2 DEF Asked, Current
<1>4. Paired(asked)
  BY <1>1, <1>2 DEF Paired, Listed
<1>5. Placed(objs')
  BY <1>1, <1>2, <1>3, CommitPlaced, RewritePlaced
<1>6. SentInv'
  <2> DEFINE c == Current(k)
  <2>1. OneOutput' => Single(Active(c)) /\ Single(Lit(c))
    <3>1. OneOutput' => Cardinality(Active(c)) <= 1 /\ Cardinality(Lit(c)) <= 1
      BY <1>3 DEF OneOutput
    <3>2. QED
      BY <1>2, <1>3, <3>1, OneOutputSingle
  <2>2. CASE Untouched(c)
    BY <1>1, <1>3, <2>2 DEF SentInv, Rewrite, Untouched
  <2>3. CASE ~Untouched(c) /\ DoSplit(c)
    BY <1>1, <1>2, <1>3, <2>1, <2>3, FirstSplit DEF SentInv
  <2>4. CASE ~Untouched(c) /\ ~DoSplit(c)
    BY <1>1, <1>2, <1>3, <2>4, FirstStripped DEF SentInv
  <2>5. QED
    BY <2>2, <2>3, <2>4
<1>7. QED
  BY <1>1, <1>2, <1>4, <1>5, <1>6 DEF SplitInv, BuildInv

(* Issued again: what was left untouched stays so, and the rest can only    *)
(* lose entries that turn something off.                                    *)
LEMMA AgainStep ==
  ASSUME SplitInv, Again
  PROVE  SplitInv' /\ (OneOutput => objs' = objs \/ objs' = Without(objs, kind))
<1>1. /\ phase = "sent" /\ phase' = phase /\ objs' = Rewrite(Current(kind)) /\ kind' = kind
      /\ asked' = asked /\ count' = count /\ kern' = kern
  BY DEF Again
<1> DEFINE a == Asked
           c == Current(kind)
<1>2. /\ Asked' = a /\ (OneOutput' <=> OneOutput) /\ a.objs = asked /\ a.kind = kind
      /\ c.objs = objs /\ c.kind = kind
  BY <1>1 DEF Asked, Current, OneOutput
<1>3. Commit(asked) /\ Placed(objs) /\ SentInv
  BY <1>1 DEF SplitInv, BuildInv
<1>4. Placed(objs')
  BY <1>1, <1>2, <1>3, RewritePlaced
<1>5. SentInv' /\ (OneOutput => objs' = objs \/ objs' = Without(objs, kind))
  <2>1. CASE Untouched(a)
    <3>1. objs = asked
      BY <1>3, <2>1 DEF SentInv
    <3>2. c = a
      BY <3>1 DEF Asked, Current
    <3>3. objs' = objs
      BY <1>1, <1>2, <2>1, <3>2 DEF Rewrite, Untouched
    <3>4. QED
      BY <1>1, <1>2, <2>1, <3>1, <3>3 DEF SentInv
  <2>2. CASE ~Untouched(a) /\ DoSplit(a)
    <3>1. Fb(a) # 0
      BY <2>2 DEF DoSplit
    <3>2. ASSUME OneOutput
          PROVE  /\ Split(objs', Fb(a)) /\ Lights206(objs', a)
                 /\ objs' = objs \/ objs' = Without(objs, kind)
      <4>1. Split(objs, Fb(a)) /\ Lights206(objs, a)
        BY <1>3, <2>2, <3>2 DEF SentInv
      <4>2. objs' = objs \/ objs' = Without(objs, kind)
        BY <1>1, <1>2, <1>3, <3>1, <4>1, SplitAgain
      <4>3. CASE objs' = Without(objs, kind)
        <5> DEFINE w == Without(objs, kind)
        <5>1. /\ Split(w, Fb(a))
              /\ \A i \in DOMAIN objs : objs[i].id = CRTC /\ Val(objs[i], "ACTIVE") # 0 =>
                   i \in DOMAIN w
          BY <4>1, SplitWithout
        <5>2. \A i \in DOMAIN w : w[i] = objs[i]
          BY DEF Without
        <5> HIDE DEF w
        <5>3. Lights206(w, a)
          BY <4>1, <5>1, <5>2 DEF Lights206
        <5>4. QED
          BY <4>3, <5>1, <5>3 DEF w
      <4>4. QED
        BY <4>1, <4>2, <4>3
    <3>3. QED
      BY <1>2, <2>2, <3>2 DEF SentInv
  <2>3. CASE ~Untouched(a) /\ ~DoSplit(a)
    <3>1. Stripped(objs, a)
      BY <1>3, <2>3 DEF SentInv
    <3>2. /\ objs' = objs \/ objs' = Without(objs, kind)
          /\ Stripped(objs', a)
      BY <1>1, <1>2, <1>3, <2>3, <3>1, StrippedAgain
    <3>3. QED
      BY <1>2, <2>3, <3>2 DEF SentInv
  <2>4. QED
    BY <2>1, <2>2, <2>3
<1>6. QED
  BY <1>1, <1>3, <1>4, <1>5 DEF SplitInv, BuildInv

LEMMA Nothing == Commit(<<>>) /\ Placed(<<>>)
<1>1. <<>> \in Seq(Entries) /\ DOMAIN <<>> = {}
  OBVIOUS
<1>2. QED
  BY <1>1 DEF Commit, Placed

LEMMA FinishStep ==
  ASSUME SplitInv, NEW result, Finish(result)
  PROVE  SplitInv'
<1>1. /\ objs' = <<>> /\ asked' = <<>> /\ count' = count + 1 /\ phase' \in {"build", "done"}
  BY DEF Finish
<1>2. QED
  BY <1>1, Nothing DEF SplitInv, BuildInv

LEMMA InitSplitInv == Init => SplitInv
BY Nothing DEF Init, SplitInv, BuildInv

LEMMA StepSplitInv == SplitInv /\ [Next]_vars => SplitInv'
<1> SUFFICES ASSUME SplitInv, [Next]_vars PROVE SplitInv'
  OBVIOUS
<1>1. CASE UNCHANGED vars
  BY <1>1 DEF vars, SplitInv, BuildInv, SentInv, Asked, OneOutput
<1>2. CASE Next
  BY <1>2, AddStep, SubmitStep, AgainStep, FinishStep DEF Next
<1>3. QED
  BY <1>1, <1>2

LEMMA FitsIds ==
  ASSUME NEW s, NEW f, Split(s, f), NEW i \in DOMAIN s
  PROVE  /\ s[i].id \notin VIRT
         /\ s[i].id \in Halves => s[i] = Half(s[i].id, f)
         /\ s[i].id = CONN => ConnIn(s[i])
         /\ s[i].id \notin Halves /\ Has(s[i], "CRTC_ID") => Val(s[i], "FB_ID") = 0
         /\ Has(s[i], "CRTC_ID") => s[i].id # CRTC
<1>1. Fits(s[i], f)
  BY DEF Split
<1>2. CASE HalfIn(s[i], f)
  BY <1>2 DEF HalfIn, Halves, VIRT, L, R, CONN, CRTC
<1>3. CASE ConnIn(s[i])
  BY <1>3 DEF ConnIn, Halves, VIRT, L, R, CONN, CRTC, Val, Has
<1>4. CASE CrtcIn(s[i])
  BY <1>4 DEF CrtcIn, Val, Has, CrtcProps
<1>5. CASE OffIn(s[i])
  BY <1>5 DEF OffIn
<1>6. QED
  BY <1>1, <1>2, <1>3, <1>4, <1>5 DEF Fits

(* A commit with a framebuffer reaches the kernel with both halves of the   *)
(* panel showing it, each named once, and nothing else lit; for any commit  *)
(* of a kwin that drives one output, and however often it is issued again.  *)
THEOREM HalvesTogether == Spec => []HalvesDrivePanel
<1>1. SplitInv => HalvesDrivePanel
  <2> SUFFICES ASSUME SplitInv, SentSplit, OneOutput PROVE HalvesDrivePanel
    BY DEF HalvesDrivePanel
  <2>1. Commit(asked) /\ Asked.objs = asked /\ Placed(asked)
    BY CommitPlaced DEF SplitInv, BuildInv, Asked
  <2>2. \E i \in DOMAIN asked : Val(asked[i], "FB_ID") = Fb(Asked)
    BY <2>1, FbFrom DEF SentSplit, Pos
  <2>3. Split(objs, Fb(Asked))
    <3>1. ~Untouched(Asked)
      BY <2>1, FbFrom DEF SentSplit, Sent, Untouched
    <3>2. QED
      BY <3>1 DEF SentSplit, Sent, SplitInv, SentInv
  <2>4. ASSUME NEW id \in Halves
        PROVE  \E i \in Of(id) : Of(id) = {i} /\ objs[i] = Half(id, Fb(Asked))
    <3>1. PICK i \in DOMAIN objs : objs[i].id = id
      BY <2>3 DEF Split
    <3>2. \A j \in DOMAIN objs : objs[j].id = id => j = i
      BY <2>3, <3>1 DEF Split, Halves, L, R, CRTC
    <3>3. Of(id) = {i}
      BY <3>1, <3>2 DEF Of
    <3>4. QED
      BY <2>3, <3>1, <3>3, FitsIds
  <2>5. ASSUME NEW i \in DOMAIN objs, Has(objs[i], "CRTC_ID")
        PROVE  /\ Val(objs[i], "FB_ID") # 0 => objs[i].id \in Halves
               /\ objs[i].id \notin VIRT /\ Of(objs[i].id) = {i}
    <3>1. /\ objs[i].id \notin VIRT /\ objs[i].id # CRTC
          /\ Val(objs[i], "FB_ID") # 0 => objs[i].id \in Halves
      BY <2>3, <2>5, FitsIds
    <3>2. \A j \in DOMAIN objs : objs[j].id = objs[i].id => j = i
      BY <2>3, <3>1 DEF Split
    <3>3. QED
      BY <3>1, <3>2 DEF Of
  <2>6. QED
    BY <2>2, <2>4, <2>5 DEF HalvesDrivePanel
<1>2. QED
  BY InitSplitInv, StepSplitInv, <1>1, PTL DEF Spec

(* As long as kwin lights one crtc and turns on one real plane at most in a *)
(* commit: a crtc kwin lights is shut down and the connector goes to 206,   *)
(* in every commit that is split, and 206 is lit in the mode meant for the  *)
(* other.  In one kind of commit that has a mode for it, 206 is not lit: a  *)
(* flip that lists 206 as off (kwinwrap.c:718).                             *)
THEOREM TakesOver == Spec => []PanelTakesOver
<1>1. SplitInv => PanelTakesOver
  <2> SUFFICES ASSUME SplitInv, SentSplit, OneOutput, Kact(Asked) # {}
               PROVE  /\ GivesWay(Asked)
                      /\ /\ Kblob(Asked) # 0
                         /\ ~(kind = "flip" /\ \E i \in I206(Asked) : OffCrtc(asked[i]))
                         => Lit206(Asked)
    BY DEF PanelTakesOver
  <2>1. Commit(asked) /\ Asked.objs = asked /\ Asked.kind = kind /\ Placed(asked)
    BY CommitPlaced DEF SplitInv, BuildInv, Asked
  <2>2. Split(objs, Fb(Asked)) /\ Lights206(objs, Asked)
    <3>1. ~Untouched(Asked)
      BY <2>1, FbFrom DEF SentSplit, Sent, Untouched
    <3>2. QED
      BY <3>1 DEF SentSplit, Sent, SplitInv, SentInv
  <2>3. ASSUME Kblob(Asked) # 0, ~(kind = "flip" /\ \E i \in I206(Asked) : OffCrtc(asked[i]))
        PROVE  Lit206(Asked)
    BY <2>1, <2>2, <2>3 DEF Lights206, Lit206, Of
  <2>4. ASSUME NEW k \in Kact(Asked), NEW i \in Of(asked[k].id) PROVE Val(objs[i], "ACTIVE") = 0
    <3>1. k \in Lit(Asked) /\ k \in DOMAIN asked
      BY <2>1, Found DEF Lit, Pos
    <3>2. Has(asked[k], "ACTIVE") /\ asked[k].id # CRTC
      BY <2>1, <3>1 DEF Lit, I206, Val
    <3>3. i \in DOMAIN objs /\ objs[i].id # CRTC
      BY <3>2 DEF Of
    <3>4. Fits(objs[i], Fb(Asked))
      BY <2>2, <3>3 DEF Split
    <3>5. CASE HalfIn(objs[i], Fb(Asked))
      BY <3>5 DEF HalfIn, Half, Val, Has
    <3>6. CASE ConnIn(objs[i]) \/ CrtcIn(objs[i]) \/ OffIn(objs[i])
      BY <3>3, <3>6 DEF ConnIn, CrtcIn, OffIn, Val, Has, CrtcProps
    <3>7. QED
      BY <3>4, <3>5, <3>6 DEF Fits
  <2>5. \A i \in Of(CONN) : Has(objs[i], "CRTC_ID") => objs[i].p["CRTC_ID"] = CRTC
    BY <2>2, FitsIds DEF Of, ConnIn
  <2>6. QED
    BY <2>1, <2>3, <2>4, <2>5 DEF GivesWay
<1>2. QED
  BY InitSplitInv, StepSplitInv, <1>1, PTL DEF Spec

(* Rewriting a rewritten commit leaves it as it is, but for entries that    *)
(* turn something off.                                                      *)
THEOREM RetryHarmless == Spec => RetryKeepsPanel
<1>1. SplitInv /\ [Next]_vars =>
        [Again /\ OneOutput =>
           LET off(e) == e.id \notin Halves /\ (Idle(e) \/ (kind = "flip" /\ OffCrtc(e)))
           IN  \/ objs' = objs
               \/ objs' = [i \in {j \in DOMAIN objs : ~off(objs[j])} |-> objs[i]]]_vars
  BY AgainStep DEF Without, Off
<1>2. QED
  BY InitSplitInv, StepSplitInv, <1>1, PTL DEF Spec, RetryKeepsPanel

-----------------------------------------------------------------------------
(* The commits of RelayFilter: probed, split, relayed or filtered.          *)
RelayInv ==
  /\ BuildInv /\ Len(asked) <= MaxEntries
  /\ phase = "sent" =>
       /\ mode = "native" => SentInv
       /\ mode = "probe" => objs = asked /\ kind = "test"
       /\ mode = "relay" => objs = asked
       /\ mode = "plain" => objs = Filtered(asked)
  /\ mode \in {"probe", "native", "relay", "plain"}

LEMMA FilteredPlaced ==
  ASSUME NEW s, Placed(s)
  PROVE  /\ Placed(Filtered(s))
         /\ Filtered(Filtered(s)) = Filtered(s)
<1>1. CASE Size(s) > MaxRelay
  BY <1>1 DEF Filtered
<1>2. CASE ~(Size(s) > MaxRelay)
  <2> DEFINE D == {j \in DOMAIN s : PlainProps(s[j]) # {}}
             f == Filtered(s)
  <2>1. f = [i \in D |-> [id |-> s[i].id, p |-> [n \in PlainProps(s[i]) |-> s[i].p[n]]]]
    BY <1>2 DEF Filtered
  <2>2. /\ DOMAIN f = D
        /\ \A i \in D : /\ f[i].id = s[i].id /\ DOMAIN f[i].p = PlainProps(s[i])
                        /\ \A n \in PlainProps(s[i]) : f[i].p[n] = s[i].p[n]
    BY <2>1
  <2>3. Placed(f)
    BY <2>2 DEF Placed
  <2>4. Size(f) <= Size(s)
    BY <2>2, PlacedFinite, FS_Subset DEF Size
  <2>5. ~(Size(f) > MaxRelay)
    <3>1. Size(f) \in Nat /\ Size(s) \in Nat
      BY <2>3, PlacedFinite, FS_CardinalityType DEF Size
    <3>2. QED
      BY <1>2, <2>4, <3>1, StartsAssumption
  <2>6. \A i \in D : PlainProps(f[i]) = PlainProps(s[i])
    <3> SUFFICES ASSUME NEW i \in D PROVE PlainProps(f[i]) = PlainProps(s[i])
      OBVIOUS
    <3>1. f[i].id = s[i].id /\ DOMAIN f[i].p = PlainProps(s[i])
      BY <2>2
    <3> HIDE DEF f
    <3>2. QED
      BY <3>1 DEF PlainProps, CONN, CRTC
  <2> HIDE DEF f, D
  <2>7. {j \in DOMAIN f : PlainProps(f[j]) # {}} = D
    BY <2>2, <2>6 DEF D
  <2>8. Filtered(f) = [i \in D |-> [id |-> f[i].id, p |-> [n \in PlainProps(f[i]) |-> f[i].p[n]]]]
    BY <2>5, <2>7 DEF Filtered
  <2>9. \A i \in D : [n \in PlainProps(f[i]) |-> f[i].p[n]] = [n \in PlainProps(s[i]) |-> s[i].p[n]]
    BY <2>2, <2>6
  <2>10. Filtered(f) = f
    BY <2>1, <2>2, <2>8, <2>9
  <2>11. QED
    BY <2>3, <2>10 DEF f
<1>3. QED
  BY <1>1, <1>2

LEMMA SendStep ==
  ASSUME RelayInv, NEW k, NEW s, Placed(s), Send(k, s), mode \in {"probe", "relay", "plain"},
         mode = "probe" => s = asked /\ k = "test", mode = "relay" => s = asked,
         mode = "plain" => s = Filtered(asked)
  PROVE  RelayInv'
<1>1. /\ phase = "build" /\ phase' = "sent" /\ objs' = s /\ kind' = k
      /\ asked' = asked /\ count' = count /\ mode' = mode /\ Listed(L) = Listed(R)
  BY DEF Send
<1>2. objs = asked
  BY <1>1 DEF RelayInv, BuildInv
<1>3. Paired(asked)
  BY <1>1, <1>2 DEF Paired, Listed
<1>4. BuildInv'
  BY <1>1, <1>3 DEF RelayInv, BuildInv
<1>5. QED
  BY <1>1, <1>4 DEF RelayInv

LEMMA RelayInitially == RelayInit => RelayInv
<1> SUFFICES ASSUME RelayInit PROVE RelayInv
  OBVIOUS
<1>1. SplitInv /\ asked = <<>> /\ phase = "build" /\ mode \in {"probe", "plain"}
  BY InitSplitInv, StartsAssumption DEF RelayInit, Init
<1>2. Len(asked) <= MaxEntries
  BY <1>1, BoundsAssumption
<1>3. QED
  BY <1>1, <1>2 DEF RelayInv, SplitInv

LEMMA RelayStep == RelayInv /\ [RelayNext]_allVars => RelayInv'
<1> SUFFICES ASSUME RelayInv, [RelayNext]_allVars PROVE RelayInv'
  OBVIOUS
<1>1. asked \in Seq(Entries) /\ MaxEntries \in Nat
  BY BoundsAssumption DEF RelayInv, BuildInv, Commit
<1>2. ASSUME objs' = <<>>, asked' = <<>>, phase' \in {"build", "done"}, count' \in Nat,
             mode' \in {"probe", "native", "relay", "plain"}
      PROVE  RelayInv'
  BY <1>1, <1>2, Nothing DEF RelayInv, BuildInv
<1>3. ASSUME UNCHANGED allVars PROVE RelayInv'
  BY <1>3 DEF RelayInv, allVars, vars, BuildInv, SentInv, Asked, OneOutput
<1>4. ASSUME NEW e \in Entries, Add(e), mode' = mode PROVE RelayInv'
  <2>1. phase = "build" /\ phase' = "build" /\ asked' = Append(asked, e) /\ Len(asked) < MaxEntries
    BY <1>4 DEF Add
  <2>2. SplitInv
    BY <2>1 DEF RelayInv, SplitInv
  <2>3. SplitInv'
    BY <1>4, <2>2, AddStep
  <2>4. Len(asked') <= MaxEntries
    BY <1>1, <2>1
  <2>5. QED
    BY <1>4, <2>1, <2>3, <2>4 DEF SplitInv, RelayInv
<1>5. ASSUME SplitStep PROVE RelayInv'
  <2>1. mode = "native" /\ mode' = mode
    BY <1>5 DEF SplitStep
  <2>2. SplitInv
    BY <2>1 DEF RelayInv, SplitInv
  <2>3. CASE \E k \in Kinds : Submit(k)
    <3>1. SplitInv'
      BY <2>2, <2>3, SubmitStep
    <3>2. asked' = asked
      BY <2>3 DEF Submit
    <3>3. QED
      BY <2>1, <3>1, <3>2 DEF SplitInv, RelayInv
  <2>4. CASE Again
    <3>1. SplitInv'
      BY <2>2, <2>4, AgainStep
    <3>2. asked' = asked
      BY <2>4 DEF Again
    <3>3. QED
      BY <2>1, <3>1, <3>2 DEF SplitInv, RelayInv
  <2>5. CASE \E result \in {"accept", "refuse"} : Finish(result)
    <3>1. /\ objs' = <<>> /\ asked' = <<>> /\ count' = count + 1 /\ phase' \in {"build", "done"}
      BY <2>5 DEF Finish
    <3>2. QED
      BY <1>2, <2>1, <3>1 DEF RelayInv, BuildInv
  <2>6. QED
    BY <1>5, <2>3, <2>4, <2>5 DEF SplitStep
<1>6. ASSUME Probe PROVE RelayInv'
  BY <1>6, SendStep DEF Probe, Send, RelayInv, BuildInv
<1>7. ASSUME ProbeNative PROVE RelayInv'
  <2>1. /\ objs' = <<>> /\ asked' = <<>> /\ count' = count + 1 /\ phase' \in {"build", "done"}
        /\ mode' = "native"
    BY <1>7 DEF ProbeNative, Finish
  <2>2. QED
    BY <1>2, <2>1 DEF RelayInv, BuildInv
<1>8. ASSUME ProbeRelay PROVE RelayInv'
  BY <1>8 DEF ProbeRelay, RelayInv, vars, BuildInv
<1>9. ASSUME NEW k \in Kinds, Relay(k) PROVE RelayInv'
  BY <1>9, SendStep DEF Relay, Send, RelayInv, BuildInv
<1>10. ASSUME NEW k \in Kinds, Filter(k) PROVE RelayInv'
  <2>1. objs = asked /\ Placed(objs) /\ mode = "plain"
    BY <1>10 DEF Filter, Send, RelayInv, BuildInv
  <2>2. Placed(Filtered(objs))
    BY <2>1, FilteredPlaced
  <2>3. QED
    BY <1>10, <2>1, <2>2, SendStep DEF Filter
<1>11. ASSUME FilterAgain PROVE RelayInv'
  <2>1. /\ mode = "plain" /\ phase = "sent" /\ objs' = Filtered(objs)
        /\ UNCHANGED <<kind, asked, phase, kern, count, mode>>
    BY <1>11 DEF FilterAgain
  <2>2. objs = Filtered(asked) /\ Placed(asked)
    BY <2>1, CommitPlaced DEF RelayInv, BuildInv
  <2>3. objs' = Filtered(asked) /\ Placed(objs')
    BY <2>1, <2>2, FilteredPlaced
  <2>4. QED
    BY <2>1, <2>3 DEF RelayInv, BuildInv
<1>12. ASSUME NEW result, Answer(result) PROVE RelayInv'
  <2>1. /\ objs' = <<>> /\ asked' = <<>> /\ count' = count + 1 /\ phase' \in {"build", "done"}
        /\ mode' = mode
    BY <1>12 DEF Answer
  <2>2. QED
    BY <1>2, <2>1 DEF RelayInv, BuildInv
<1>13. CASE RelayNext
  <2>1. CASE Build
    BY <1>4, <2>1 DEF Build
  <2>2. CASE SplitStep \/ Probe \/ ProbeNative \/ ProbeRelay \/ FilterAgain
    BY <1>5, <1>6, <1>7, <1>8, <1>11, <2>2
  <2>3. CASE \E k \in Kinds : Relay(k) \/ Filter(k)
    BY <1>9, <1>10, <2>3
  <2>4. CASE \E result \in {"accept", "refuse"} : Answer(result)
    BY <1>12, <2>4
  <2>5. QED
    BY <1>13, <2>1, <2>2, <2>3, <2>4 DEF RelayNext
<1>14. QED
  BY <1>3, <1>13

-----------------------------------------------------------------------------
(* What a commit that is executed leaves of the kernel's state.             *)
LEMMA Merged ==
  ASSUME NEW k, NEW s, Placed(s), NEW id \in Ids, NEW n \in KProps,
         \A i, j \in DOMAIN s : s[i].id = id /\ s[j].id = id => i = j
  PROVE  /\ \A i \in DOMAIN s : s[i].id = id /\ Has(s[i], n) => Merge(k, s)[id][n] = s[i].p[n]
         /\ (\A i \in DOMAIN s : s[i].id = id => ~Has(s[i], n)) => Merge(k, s)[id][n] = k[id][n]
<1> DEFINE set == {i \in DOMAIN s : s[i].id = id /\ Has(s[i], n)}
<1>1. Merge(k, s)[id][n] = IF set = {} THEN k[id][n] ELSE s[Max(set)].p[n]
  BY DEF Merge
<1>2. ASSUME NEW i \in DOMAIN s, s[i].id = id, Has(s[i], n)
      PROVE  Merge(k, s)[id][n] = s[i].p[n]
  <2>1. set = {i}
    BY <1>2
  <2>2. i \in Nat
    BY DEF Placed
  <2>3. Max({i}) = i
    BY <2>2 DEF Max
  <2>4. QED
    BY <1>1, <2>1, <2>3
<1>3. QED
  BY <1>1, <1>2

(* No virtual plane, no framebuffer, both halves off or neither listed: the *)
(* kernel's planes stay as they are or go off.                              *)
Dark(s) ==
  /\ \A i, j \in DOMAIN s : s[i].id = s[j].id => i = j
  /\ \A i \in DOMAIN s : /\ Val(s[i], "FB_ID") = 0
                         /\ s[i].id \in Halves => /\ Has(s[i], "FB_ID") /\ Has(s[i], "CRTC_ID")
                                                  /\ Val(s[i], "CRTC_ID") = 0
  /\ Paired(s)

LEMMA DarkMerge ==
  ASSUME HalvesAgree, OnlyHalvesLit, NEW s, Placed(s), Dark(s), kern' = Merge(kern, s)
  PROVE  HalvesAgree' /\ OnlyHalvesLit'
<1>1. L \in Ids /\ R \in Ids /\ Halves \subseteq Ids /\ "FB_ID" \in KProps /\ "CRTC_ID" \in KProps
  BY DEF Ids, Halves, KProps
<1>2. ASSUME NEW id \in Ids, NEW n \in {"FB_ID", "CRTC_ID"}
      PROVE  /\ \A i \in DOMAIN s : s[i].id = id /\ Has(s[i], n) => kern'[id][n] = s[i].p[n]
             /\ (\A i \in DOMAIN s : s[i].id = id => ~Has(s[i], n)) => kern'[id][n] = kern[id][n]
  BY <1>1, Merged DEF Dark
<1>3. ASSUME NEW n \in {"FB_ID", "CRTC_ID"} PROVE kern'[L][n] = kern'[R][n]
  <2>1. CASE \E i \in DOMAIN s : s[i].id = L
    <3>1. PICK i \in DOMAIN s : s[i].id = L
      BY <2>1
    <3>2. PICK j \in DOMAIN s : s[j].id = R
      BY <2>1 DEF Dark, Paired
    <3>3. s[i].id \in Halves /\ s[j].id \in Halves
      BY <3>1, <3>2 DEF Halves
    <3>4. Has(s[i], n) /\ s[i].p[n] = 0 /\ Has(s[j], n) /\ s[j].p[n] = 0
      BY <3>3 DEF Dark, Val
    <3>5. QED
      BY <1>1, <1>2, <3>1, <3>2, <3>4
  <2>2. CASE ~\E i \in DOMAIN s : s[i].id = L
    <3>1. (\A i \in DOMAIN s : s[i].id # L) /\ \A i \in DOMAIN s : s[i].id # R
      BY <2>2 DEF Dark, Paired
    <3>2. kern'[L][n] = kern[L][n] /\ kern'[R][n] = kern[R][n]
      BY <1>1, <1>2, <3>1
    <3>3. QED
      BY <3>2 DEF HalvesAgree
  <2>3. QED
    BY <2>1, <2>2
<1>4. ASSUME NEW id \in Ids \ Halves PROVE kern'[id]["FB_ID"] = 0
  BY <1>2 DEF Dark, Val, OnlyHalvesLit
<1>5. QED
  BY <1>3, <1>4 DEF HalvesAgree, OnlyHalvesLit

LEMMA SplitMerge ==
  ASSUME OnlyHalvesLit, NEW s, NEW f, Placed(s), Split(s, f), kern' = Merge(kern, s)
  PROVE  HalvesAgree' /\ OnlyHalvesLit'
<1>1. Halves \subseteq Ids /\ "FB_ID" \in KProps /\ "CRTC_ID" \in KProps
  BY DEF Ids, Halves, KProps
<1>2. ASSUME NEW id \in Halves
      PROVE  kern'[id]["FB_ID"] = f /\ kern'[id]["CRTC_ID"] = CRTC
  <2>1. PICK i \in DOMAIN s : s[i].id = id
    BY DEF Split
  <2>2. s[i] = Half(id, f)
    BY <2>1, FitsIds
  <2>3. /\ Has(s[i], "FB_ID") /\ s[i].p["FB_ID"] = f
        /\ Has(s[i], "CRTC_ID") /\ s[i].p["CRTC_ID"] = CRTC
    BY <2>2 DEF Half, Has
  <2>4. \A j, m \in DOMAIN s : s[j].id = id /\ s[m].id = id => j = m
    BY DEF Split, Halves, L, R, CRTC
  <2>5. QED
    BY <1>1, <2>1, <2>3, <2>4, Merged
<1>3. ASSUME NEW id \in Ids \ Halves PROVE kern'[id]["FB_ID"] = 0
  <2>1. CASE \A i \in DOMAIN s : s[i].id = id => ~Has(s[i], "FB_ID")
    <3>1. {i \in DOMAIN s : s[i].id = id /\ Has(s[i], "FB_ID")} = {}
      BY <2>1
    <3>2. kern'[id]["FB_ID"] = kern[id]["FB_ID"]
      BY <1>1, <3>1 DEF Merge
    <3>3. QED
      BY <3>2 DEF OnlyHalvesLit
  <2>2. CASE \E i \in DOMAIN s : s[i].id = id /\ Has(s[i], "FB_ID")
    <3>1. PICK i \in DOMAIN s : s[i].id = id /\ Has(s[i], "FB_ID")
      BY <2>2
    <3>2. OffIn(s[i])
      BY <3>1 DEF Split, Fits, HalfIn, ConnIn, CrtcIn, Has, CrtcProps
    <3>3. s[i].p["FB_ID"] = 0 /\ id # CRTC
      BY <3>1, <3>2 DEF OffIn, Val
    <3>4. \A j, m \in DOMAIN s : s[j].id = id /\ s[m].id = id => j = m
      BY <3>3 DEF Split
    <3>5. QED
      BY <1>1, <3>1, <3>3, <3>4, Merged
  <2>3. QED
    BY <2>1, <2>2
<1>4. QED
  BY <1>2, <1>3 DEF HalvesAgree, OnlyHalvesLit, Halves

(* A commit without a framebuffer, as it is or stripped, is dark.           *)
LEMMA SentDark ==
  ASSUME BuildInv, phase = "sent", SentInv, ~TooLong(Asked),
         ~DoSplit(Asked) \/ NothingToSteal(Asked)
  PROVE  Dark(objs)
<1> DEFINE a == Asked
<1>1. Commit(asked) /\ Paired(asked) /\ a.objs = asked /\ Placed(asked)
  BY CommitPlaced DEF BuildInv, Asked
<1>2. ~DoSplit(a)
  BY <1>1, FbFrom
<1>3. /\ \A i \in DOMAIN objs : i \in DOMAIN asked /\ objs[i] = asked[i] /\ asked[i].id \notin VIRT
      /\ \A i \in DOMAIN asked : asked[i].id \in Halves => i \in DOMAIN objs
  <2>1. CASE NothingToSteal(a)
    <3>1. objs = asked
      BY <2>1 DEF SentInv, Untouched
    <3>2. Virtual(a) = {}
      BY <1>1, <2>1, Found DEF NothingToSteal
    <3>3. QED
      BY <1>1, <3>1, <3>2 DEF Virtual, Pos
  <2>2. CASE ~NothingToSteal(a)
    <3>1. Stripped(objs, a)
      BY <1>2, <2>2 DEF SentInv, Untouched
    <3>2. QED
      BY <1>1, <3>1 DEF Stripped, Virtual, Pos
  <2>3. QED
    BY <2>1, <2>2
<1>4. ASSUME NEW i \in DOMAIN objs, IsPlane(objs[i])
      PROVE  Val(objs[i], "FB_ID") = 0 /\ Val(objs[i], "CRTC_ID") = 0
  <2>1. ~Has(objs[i], "ACTIVE") /\ objs[i].id # CONN /\ Has(objs[i], "FB_ID")
    BY <1>4 DEF IsPlane, Has, CrtcProps
  <2>2. i \in Other(a)
    BY <1>1, <1>3, <2>1 DEF Other, Pos, Virtual, I206, Lit, Val
  <2>3. i \notin Active(a)
    BY <1>1, <1>2, NothingActive
  <2>4. Val(objs[i], "CRTC_ID") = 0
    BY <1>1, <1>3, <2>1, <2>2, <2>3 DEF Active
  <2>5. QED
    BY <1>4, <2>4 DEF IsPlane, Val, Has
<1>5. ASSUME NEW i \in DOMAIN objs
      PROVE  /\ Val(objs[i], "FB_ID") = 0
             /\ objs[i].id \in Halves => /\ Has(objs[i], "FB_ID") /\ Has(objs[i], "CRTC_ID")
                                         /\ Val(objs[i], "CRTC_ID") = 0
  <2>1. IsConn(objs[i]) \/ IsCrtc(objs[i]) \/ IsPlane(objs[i])
    BY <1>1, <1>3, EntryKinds
  <2>2. CASE IsConn(objs[i])
    BY <2>2 DEF IsConn, Val, Has, Halves, L, R, CONN
  <2>3. CASE IsCrtc(objs[i])
    BY <2>3 DEF IsCrtc, Val, Has, CrtcProps
  <2>4. CASE IsPlane(objs[i])
    BY <1>4, <2>4 DEF IsPlane, Has
  <2>5. QED
    BY <2>1, <2>2, <2>3, <2>4
<1>6. \A i, j \in DOMAIN objs : objs[i].id = objs[j].id => i = j
  BY <1>1, <1>3 DEF Commit
<1>7. Paired(objs)
  BY <1>1, <1>3 DEF Paired, Halves
<1>8. QED
  BY <1>5, <1>6, <1>7 DEF Dark

LEMMA UpTo == ASSUME NEW n \in Nat PROVE Cardinality(1 .. n) = n
<1>1. 1 \in Int /\ n \in Int
  OBVIOUS
<1>2. Cardinality(1 .. n) = IF 1 > n THEN 0 ELSE n - 1 + 1
  BY <1>1, FS_Interval
<1>3. QED
  BY <1>2

PanelInv == mode \in {"probe", "native"} => HalvesAgree /\ OnlyHalvesLit

LEMMA PanelStep ==
  ASSUME RelayInv, PanelInv, OneOutput, MaxEntries <= MaxObjs, [RelayNext]_allVars
  PROVE  PanelInv'
<1>1. ASSUME kern' = kern, mode' \in {"probe", "native"} => mode \in {"probe", "native"}
      PROVE  PanelInv'
  BY <1>1 DEF PanelInv, HalvesAgree, OnlyHalvesLit
<1>2. ASSUME NEW result, Finish(result), mode \in {"probe", "native"} PROVE PanelInv'
  <2>1. CASE kern' = kern
    BY <1>1, <1>2, <2>1
  <2>2. CASE kern' # kern
    <3>1. phase = "sent" /\ kind # "test" /\ kern' = Merge(kern, objs)
      BY <1>2, <2>2 DEF Finish
    <3>2. mode = "native" /\ SentInv /\ BuildInv /\ HalvesAgree /\ OnlyHalvesLit
      BY <1>2, <3>1 DEF RelayInv, PanelInv
    <3>3. ~TooLong(Asked)
      <4>1. asked \in Seq(Entries) /\ Asked.objs = asked /\ Len(asked) <= MaxEntries
        BY <3>2 DEF BuildInv, Commit, Asked, RelayInv
      <4>2. Size(asked) = Len(asked)
        <5>1. DOMAIN asked = 1 .. Len(asked) /\ Len(asked) \in Nat
          BY <4>1
        <5>2. Cardinality(1 .. Len(asked)) = Len(asked)
          BY <5>1, UpTo
        <5>3. QED
          BY <5>1, <5>2 DEF Size
      <4>3. Size(asked) <= MaxObjs
        <5>1. Len(asked) \in Nat
          BY <4>1
        <5>2. QED
          BY <4>1, <4>2, <5>1, BoundsAssumption
      <4>4. QED
        BY <4>1, <4>2, <4>3, BoundsAssumption DEF TooLong
    <3>4. Placed(objs)
      BY <3>2 DEF BuildInv
    <3>5. CASE ~DoSplit(Asked) \/ NothingToSteal(Asked)
      <4>1. Dark(objs)
        BY <3>1, <3>2, <3>3, <3>5, SentDark
      <4>2. QED
        BY <3>1, <3>2, <3>4, <4>1, DarkMerge DEF PanelInv
    <3>6. CASE DoSplit(Asked) /\ ~NothingToSteal(Asked)
      <4>1. Split(objs, Fb(Asked))
        BY <3>2, <3>3, <3>6 DEF SentInv, Untouched
      <4>2. QED
        BY <3>1, <3>2, <3>4, <4>1, SplitMerge DEF PanelInv
    <3>7. QED
      BY <3>5, <3>6
  <2>3. QED
    BY <2>1, <2>2
<1>3. CASE UNCHANGED allVars \/ Build \/ Probe \/ ProbeRelay \/ FilterAgain
  BY <1>1, <1>3 DEF allVars, vars, Build, Add, Probe, Send, ProbeRelay, FilterAgain
<1>4. CASE SplitStep
  <2>1. mode = "native" /\ mode' = mode
    BY <1>4 DEF SplitStep
  <2>2. CASE (\E k \in Kinds : Submit(k)) \/ Again
    BY <1>1, <2>1, <2>2 DEF Submit, Again
  <2>3. CASE \E result \in {"accept", "refuse"} : Finish(result)
    BY <1>2, <2>1, <2>3
  <2>4. QED
    BY <1>4, <2>2, <2>3 DEF SplitStep
<1>5. CASE ProbeNative
  BY <1>2, <1>5 DEF ProbeNative
<1>6. CASE \E k \in Kinds : Relay(k) \/ Filter(k)
  BY <1>1, <1>6 DEF Relay, Filter, Send
<1>7. CASE \E result \in {"accept", "refuse"} : Answer(result)
  BY <1>7 DEF Answer, PanelInv
<1>8. QED
  BY <1>3, <1>4, <1>5, <1>6, <1>7 DEF RelayNext

(* As long as kwin drives one output and its commits are not too long to be *)
(* rewritten, the halves of the panel show the same framebuffer or are off  *)
(* together, and no other plane ever shows one, whatever was tested,        *)
(* committed, interrupted or refused before.                                *)
THEOREM PanelTogether ==
  ASSUME MaxEntries <= MaxObjs
  PROVE  RelaySpec /\ []OneOutput => []NativePanel
<1>1. RelayInit => PanelInv
  <2> SUFFICES ASSUME RelayInit PROVE PanelInv
    OBVIOUS
  <2>1. kern = [id \in Ids |-> [n \in KProps |-> 0]]
    BY DEF RelayInit, Init
  <2>2. L \in Ids /\ R \in Ids /\ "FB_ID" \in KProps /\ "CRTC_ID" \in KProps
    BY DEF Ids, Halves, KProps
  <2>3. QED
    BY <2>1, <2>2 DEF PanelInv, HalvesAgree, OnlyHalvesLit
<1>2. RelayInv /\ PanelInv /\ OneOutput /\ [RelayNext]_allVars => PanelInv'
  BY PanelStep
<1>3. PanelInv => NativePanel
  BY DEF PanelInv, NativePanel
<1>4. QED
  BY RelayInitially, RelayStep, <1>1, <1>2, <1>3, PTL DEF RelaySpec

-----------------------------------------------------------------------------
(* What is left of a commit in the copy, and by the filter.                 *)
LEMMA Linked ==
  ASSUME NEW s, Commit(s)
  PROVE  /\ Dyn(s) => \A i \in DOMAIN s : s[i].id = CONN =>
                        Has(s[i], "CRTC_ID") /\ s[i].p["CRTC_ID"] = Target(s)
         /\ ~Dyn(s) => Target(s) = 0 /\ \A i \in DOMAIN s : s[i].id = CONN => ~Has(s[i], "CRTC_ID")
         /\ Target(s) \in Nat
         /\ \A i \in DOMAIN s : IsPlane(s[i]) => s[i].id # Target(s)
<1>1. CASE Dyn(s)
  <2>1. PICK c \in DOMAIN s : s[c].id = CONN /\ Has(s[c], "CRTC_ID")
    BY <1>1 DEF Dyn, ConnLinks
  <2>2. ConnLinks(s) = {c}
    BY <2>1 DEF ConnLinks, Commit
  <2>3. c \in Nat
    BY <2>1, CommitPlaced DEF Placed
  <2>4. Max({c}) = c
    BY <2>3 DEF Max
  <2>5. Target(s) = Val(s[c], "CRTC_ID")
    BY <1>1, <2>2, <2>4 DEF Target
  <2>6. Target(s) = s[c].p["CRTC_ID"]
    BY <2>1, <2>5 DEF Val
  <2>7. \A i \in DOMAIN s : s[i].id = CONN => i = c
    BY <2>1 DEF Commit
  <2>8. s[c] \in Entries /\ Target(s) \in Nat
    BY <2>1, <2>6, EntryKinds DEF Has
  <2>9. \A i \in DOMAIN s : s[i] \in Entries
    BY EntryKinds
  <2>10. \A i \in DOMAIN s : IsPlane(s[i]) => s[i].id # Target(s)
    BY <2>5, <2>8, <2>9, IdsAssumption
  <2>11. QED
    BY <1>1, <2>1, <2>6, <2>7, <2>8, <2>10
<1>2. CASE ~Dyn(s)
  <2>1. Target(s) = 0 /\ \A i \in DOMAIN s : s[i].id = CONN => ~Has(s[i], "CRTC_ID")
    BY <1>2 DEF Dyn, ConnLinks, Target
  <2>2. \A i \in DOMAIN s : s[i].id # 0
    BY EntryKinds
  <2>3. QED
    BY <1>2, <2>1, <2>2
<1>3. QED
  BY <1>1, <1>2

LEMMA Kept ==
  ASSUME NEW s, Commit(s), NEW i \in DOMAIN s
  PROVE  /\ KeptProps(s, s[i]) \subseteq DOMAIN s[i].p
         /\ ~Dyn(s) => KeptProps(s, s[i]) = DOMAIN s[i].p
         /\ Dyn(s) =>
              /\ s[i].id = CONN => KeptProps(s, s[i]) = DOMAIN s[i].p \cap {"CRTC_ID"}
              /\ IsCrtc(s[i]) => KeptProps(s, s[i]) = IF s[i].id = Target(s)
                                                      THEN DOMAIN s[i].p \cap {"MODE_ID", "ACTIVE"}
                                                      ELSE {}
              /\ IsPlane(s[i]) =>
                   KeptProps(s, s[i]) = IF Target(s) # 0 /\ s[i].p["CRTC_ID"] = Target(s)
                                        THEN DOMAIN s[i].p ELSE {}
<1>1. KeptProps(s, s[i]) \subseteq DOMAIN s[i].p
  BY DEF KeptProps
<1>2. ~Dyn(s) => KeptProps(s, s[i]) = DOMAIN s[i].p
  BY DEF KeptProps, KeepObj
<1>3. Dyn(s) /\ s[i].id = CONN => KeptProps(s, s[i]) = DOMAIN s[i].p \cap {"CRTC_ID"}
  BY DEF KeptProps, KeepObj
<1>4. ASSUME Dyn(s), IsCrtc(s[i])
      PROVE  KeptProps(s, s[i]) = IF s[i].id = Target(s)
                                  THEN DOMAIN s[i].p \cap {"MODE_ID", "ACTIVE"} ELSE {}
  <2>1. s[i].id # CONN /\ s[i].id # 0 /\ ~Has(s[i], "CRTC_ID")
    BY <1>4, EntryKinds DEF IsCrtc, Has, CrtcProps
  <2>2. KeepObj(s, s[i]) <=> s[i].id = Target(s)
    BY <1>4, <2>1 DEF KeepObj
  <2>3. QED
    BY <1>4, <2>1, <2>2 DEF KeptProps
<1>5. ASSUME Dyn(s), IsPlane(s[i])
      PROVE  KeptProps(s, s[i]) = IF Target(s) # 0 /\ s[i].p["CRTC_ID"] = Target(s)
                                  THEN DOMAIN s[i].p ELSE {}
  <2>1. s[i].id # CONN /\ s[i].id # Target(s) /\ Has(s[i], "CRTC_ID") /\ ~NoPlane(s[i])
    BY <1>5, Linked DEF IsPlane, Has, NoPlane, CrtcProps
  <2>2. KeepObj(s, s[i]) <=> Target(s) # 0 /\ s[i].p["CRTC_ID"] = Target(s)
    BY <1>5, <2>1 DEF KeepObj, Val
  <2>3. QED
    BY <1>5, <2>1, <2>2 DEF KeptProps
<1>6. QED
  BY <1>1, <1>2, <1>3, <1>4, <1>5

LEMMA Copied ==
  ASSUME NEW s
  PROVE  /\ DOMAIN Local(s) = {j \in DOMAIN s : KeptProps(s, s[j]) # {}}
         /\ \A i \in DOMAIN Local(s) :
              /\ Local(s)[i].id = s[i].id /\ DOMAIN Local(s)[i].p = KeptProps(s, s[i])
              /\ \A n \in KeptProps(s, s[i]) : Local(s)[i].p[n] = LocalValue(s[i], n)
BY DEF Local

LEMMA CommitSize == ASSUME NEW s, Commit(s) PROVE Size(s) \in Nat
BY CommitPlaced, PlacedFinite, FS_CardinalityType DEF Size

LEMMA RelaysAsked ==
  ASSUME NEW s, Commit(s)
  PROVE  LET T == Target(s)
             g == Local(s)
         IN
    /\ \A i \in DOMAIN g : Val(g[i], "IN_FENCE_FD") <= 0
    /\ ~Dyn(s) => /\ DOMAIN g = DOMAIN s
                  /\ \A i \in DOMAIN s : SameBut(s[i], g[i], {"IN_FENCE_FD"})
    /\ T # 0 => \A i \in DOMAIN s :
                  (s[i].id = T /\ DOMAIN s[i].p \cap {"MODE_ID", "ACTIVE"} # {})
                  \/ (Has(s[i], "FB_ID") /\ Val(s[i], "CRTC_ID") = T) =>
                    \E j \in DOMAIN g : SameBut(s[i], g[j], {"IN_FENCE_FD", "VRR_ENABLED"})
    /\ Dyn(s) => \A j \in DOMAIN g :
                   /\ Val(g[j], "ACTIVE") # 0 => T # 0 /\ g[j].id = T
                   /\ Val(g[j], "FB_ID") # 0 => T # 0 /\ Val(g[j], "CRTC_ID") = T
<1> DEFINE T == Target(s)
           g == Local(s)
<1>1. /\ DOMAIN g = {j \in DOMAIN s : KeptProps(s, s[j]) # {}}
      /\ \A i \in DOMAIN g :
           /\ g[i].id = s[i].id /\ DOMAIN g[i].p = KeptProps(s, s[i])
           /\ \A n \in KeptProps(s, s[i]) :
                g[i].p[n] = IF n = "IN_FENCE_FD" THEN -1 ELSE s[i].p[n]
  <2>1. \A i : \A n : LocalValue(s[i], n) = IF n = "IN_FENCE_FD" THEN -1 ELSE s[i].p[n]
    BY DEF LocalValue
  <2>2. /\ DOMAIN g = {j \in DOMAIN s : KeptProps(s, s[j]) # {}}
        /\ \A i \in DOMAIN g :
             /\ g[i].id = s[i].id /\ DOMAIN g[i].p = KeptProps(s, s[i])
             /\ \A n \in KeptProps(s, s[i]) : g[i].p[n] = LocalValue(s[i], n)
    BY Copied
  <2>3. QED
    BY <2>1, <2>2
<1> HIDE DEF g
<1>2. \A i \in DOMAIN s : IsConn(s[i]) \/ IsCrtc(s[i]) \/ IsPlane(s[i])
  BY EntryKinds
<1>3. ASSUME NEW i \in DOMAIN g PROVE Val(g[i], "IN_FENCE_FD") <= 0
  BY <1>1 DEF Val, Has
<1>4. ASSUME ~Dyn(s)
      PROVE  /\ DOMAIN g = DOMAIN s
             /\ \A i \in DOMAIN s : SameBut(s[i], g[i], {"IN_FENCE_FD"})
  <2>1. \A i \in DOMAIN s : KeptProps(s, s[i]) = DOMAIN s[i].p /\ DOMAIN s[i].p # {}
    BY <1>4, Kept, EntryKinds
  <2>2. QED
    BY <1>1, <2>1 DEF SameBut
<1>5. T # 0 => Dyn(s)
  BY Linked
<1>6. ASSUME T # 0, NEW i \in DOMAIN s,
             \/ s[i].id = T /\ DOMAIN s[i].p \cap {"MODE_ID", "ACTIVE"} # {}
             \/ Has(s[i], "FB_ID") /\ Val(s[i], "CRTC_ID") = T
      PROVE  \E j \in DOMAIN g : SameBut(s[i], g[j], {"IN_FENCE_FD", "VRR_ENABLED"})
  <2>1. CASE IsConn(s[i])
    BY <1>6, <2>1 DEF IsConn, CrtcProps, Has
  <2>2. CASE IsCrtc(s[i])
    <3>1. s[i].id = T /\ DOMAIN s[i].p \cap {"MODE_ID", "ACTIVE"} # {}
      BY <1>6, <2>2 DEF IsCrtc, CrtcProps, Has
    <3>2. KeptProps(s, s[i]) = DOMAIN s[i].p \cap {"MODE_ID", "ACTIVE"}
      BY <1>5, <1>6, <2>2, <3>1, Kept
    <3>3. i \in DOMAIN g /\ DOMAIN s[i].p \subseteq {"MODE_ID", "ACTIVE", "VRR_ENABLED"}
      BY <1>1, <2>2, <3>1, <3>2 DEF IsCrtc, CrtcProps
    <3>4. SameBut(s[i], g[i], {"IN_FENCE_FD", "VRR_ENABLED"})
      BY <1>1, <3>2, <3>3 DEF SameBut
    <3>5. QED
      BY <3>3, <3>4
  <2>3. CASE IsPlane(s[i])
    <3>1. s[i].id # T /\ Has(s[i], "FB_ID") /\ s[i].p["CRTC_ID"] = T
      BY <1>6, <2>3, Linked DEF Val, Has, IsPlane
    <3>2. KeptProps(s, s[i]) = DOMAIN s[i].p
      BY <1>5, <1>6, <2>3, <3>1, Kept
    <3>3. i \in DOMAIN g
      BY <1>1, <3>1, <3>2 DEF Has
    <3>4. SameBut(s[i], g[i], {"IN_FENCE_FD", "VRR_ENABLED"})
      BY <1>1, <3>2, <3>3 DEF SameBut
    <3>5. QED
      BY <3>3, <3>4
  <2>4. QED
    BY <1>2, <2>1, <2>2, <2>3
<1>7. ASSUME Dyn(s), NEW j \in DOMAIN g
      PROVE  /\ Val(g[j], "ACTIVE") # 0 => T # 0 /\ g[j].id = T
             /\ Val(g[j], "FB_ID") # 0 => T # 0 /\ Val(g[j], "CRTC_ID") = T
  <2>1. j \in DOMAIN s /\ g[j].id = s[j].id /\ KeptProps(s, s[j]) # {}
    BY <1>1
  <2>2. CASE IsConn(s[j])
    <3>1. DOMAIN g[j].p \subseteq {"CRTC_ID"}
      BY <1>1, <1>7, <2>1, <2>2, Kept DEF IsConn
    <3>2. QED
      BY <3>1 DEF Val, Has
  <2>3. CASE IsCrtc(s[j])
    <3>1. g[j].id = T /\ T # 0 /\ DOMAIN g[j].p \subseteq {"MODE_ID", "ACTIVE"}
      BY <1>1, <1>7, <2>1, <2>3, Kept, EntryKinds
    <3>2. QED
      BY <3>1 DEF Val, Has
  <2>4. CASE IsPlane(s[j])
    <3>1. DOMAIN g[j].p = DOMAIN s[j].p /\ s[j].p["CRTC_ID"] = T /\ T # 0
      BY <1>1, <1>7, <2>1, <2>4, Kept
    <3>2. ~Has(g[j], "ACTIVE") /\ Has(g[j], "CRTC_ID") /\ g[j].p["CRTC_ID"] = T
      BY <1>1, <2>4, <3>1 DEF IsPlane, Has, CrtcProps
    <3>3. QED
      BY <3>1, <3>2 DEF Val
  <2>5. QED
    BY <1>2, <2>1, <2>2, <2>3, <2>4
<1>8. QED
  BY <1>3, <1>4, <1>6, <1>7 DEF g

(* What the wrapper executes in kwin's place.  Of a commit that links the   *)
(* connector to a crtc: what kwin asked for that crtc and its planes, and   *)
(* nothing else is turned on.  Of one that unlinks it: nothing is turned    *)
(* on.  Any other commit is passed on as it is, whatever it turns on; no    *)
(* fence of kwin's ever goes along.                                         *)
THEOREM RelaysFaithfully == RelaySpec => []RelayedAsAsked
<1>1. RelayInv => RelayedAsAsked
  <2> SUFFICES ASSUME RelayInv, mode = "relay", phase = "sent" PROVE RelayedAsAsked
    BY DEF RelayedAsAsked
  <2>1. Commit(asked) /\ Given = Local(asked)
    BY DEF RelayInv, BuildInv, Given
  <2>2. QED
    BY <2>1, RelaysAsked DEF RelayedAsAsked
<1>2. QED
  BY RelayInitially, RelayStep, <1>1, PTL DEF RelaySpec

-----------------------------------------------------------------------------
(* The entries of g are entries of s, with some of their properties.        *)
PartOf(g, s) ==
  /\ DOMAIN g \subseteq DOMAIN s
  /\ \A i \in DOMAIN g : /\ g[i].id = s[i].id /\ DOMAIN g[i].p \subseteq DOMAIN s[i].p
                         /\ \A n \in DOMAIN g[i].p \cap KProps : g[i].p[n] = s[i].p[n]

LEMMA PartPlaced == ASSUME NEW s, Commit(s), NEW g, PartOf(g, s) PROVE Placed(g)
BY CommitPlaced DEF PartOf, Placed

(* The entry i of s is in g with all that matters, or has nothing of it.    *)
WholeIn(g, s, i) ==
  \/ DOMAIN s[i].p \cap KProps = {}
  \/ i \in DOMAIN g /\ DOMAIN s[i].p \cap KProps \subseteq DOMAIN g[i].p

LEMMA MergePart ==
  ASSUME NEW s, Commit(s), NEW g, PartOf(g, s), NEW k, NEW id \in Ids, NEW n \in KProps
  PROVE  /\ (\A i \in DOMAIN s : s[i].id = id => WholeIn(g, s, i))
              => Merge(k, g)[id][n] = Merge(k, s)[id][n]
         /\ (\A i \in DOMAIN s : s[i].id = id => i \notin DOMAIN g)
              => Merge(k, g)[id][n] = k[id][n]
<1>1. Placed(s) /\ Placed(g)
  BY CommitPlaced, PartPlaced
<1>2. /\ \A i, j \in DOMAIN s : s[i].id = id /\ s[j].id = id => i = j
      /\ \A i, j \in DOMAIN g : g[i].id = id /\ g[j].id = id => i = j
  BY DEF Commit, PartOf
<1>3. /\ \A i \in DOMAIN s : s[i].id = id /\ Has(s[i], n) => Merge(k, s)[id][n] = s[i].p[n]
      /\ (\A i \in DOMAIN s : s[i].id = id => ~Has(s[i], n)) => Merge(k, s)[id][n] = k[id][n]
  BY <1>1, <1>2, Merged
<1>4. /\ \A i \in DOMAIN g : g[i].id = id /\ Has(g[i], n) => Merge(k, g)[id][n] = g[i].p[n]
      /\ (\A i \in DOMAIN g : g[i].id = id => ~Has(g[i], n)) => Merge(k, g)[id][n] = k[id][n]
  BY <1>1, <1>2, Merged
<1>5. ASSUME \A i \in DOMAIN s : s[i].id = id => WholeIn(g, s, i)
      PROVE  Merge(k, g)[id][n] = Merge(k, s)[id][n]
  <2>1. CASE \E i \in DOMAIN s : s[i].id = id /\ Has(s[i], n)
    <3>1. PICK i \in DOMAIN s : s[i].id = id /\ Has(s[i], n)
      BY <2>1
    <3>2. i \in DOMAIN g /\ Has(g[i], n)
      BY <1>5, <3>1 DEF WholeIn, Has
    <3>3. g[i].id = id /\ g[i].p[n] = s[i].p[n]
      BY <3>1, <3>2 DEF PartOf, Has
    <3>4. QED
      BY <1>3, <1>4, <3>1, <3>2, <3>3
  <2>2. CASE ~\E i \in DOMAIN s : s[i].id = id /\ Has(s[i], n)
    <3>1. \A i \in DOMAIN g : g[i].id = id => ~Has(g[i], n)
      BY <2>2 DEF PartOf, Has
    <3>2. QED
      BY <1>3, <1>4, <2>2, <3>1
  <2>3. QED
    BY <2>1, <2>2
<1>6. ASSUME \A i \in DOMAIN s : s[i].id = id => i \notin DOMAIN g
      PROVE  Merge(k, g)[id][n] = k[id][n]
  <2>1. \A i \in DOMAIN g : g[i].id # id
    BY <1>6 DEF PartOf
  <2>2. QED
    BY <1>4, <2>1
<1>7. QED
  BY <1>5, <1>6

(* An object is left as the kernel has it, or set in full, the connector    *)
(* always in full: the result is consistent if and only if no crtc that is  *)
(* left, one of F, loses or gets the connector.                             *)
LEMMA PartConsistent ==
  ASSUME NEW s, Commit(s), NEW g, PartOf(g, s), NEW k, Consistent(k), Consistent(Merge(k, s)),
         NEW F,
         \A i \in DOMAIN s :
           /\ \/ WholeIn(g, s, i)
              \/ s[i].id # CONN /\ i \notin DOMAIN g /\ (s[i].id \in Crtcs => s[i].id \in F)
           /\ s[i].id \in Crtcs \cap F => i \notin DOMAIN g
  PROVE  Consistent(Merge(k, g)) <=>
           \A c \in Crtcs \cap F : (k[CONN]["CRTC_ID"] = c) = (Merge(k, s)[CONN]["CRTC_ID"] = c)
<1> DEFINE A == Merge(k, s)
           G == Merge(k, g)
           Fine(m, id) == /\ id \in Crtcs => ((m[id]["MODE_ID"] # 0) = (m[CONN]["CRTC_ID"] = id))
                          /\ m[id]["ACTIVE"] # 0 => m[id]["MODE_ID"] # 0
                          /\ (m[id]["FB_ID"] # 0) = (m[id]["CRTC_ID"] # 0)
<1>1. \A m : Consistent(m) <=> \A id \in Ids \ {CONN} : Fine(m, id)
  BY DEF Consistent
<1>2. /\ CONN \in Ids /\ Crtcs \subseteq Ids \ {CONN}
      /\ \A n \in {"FB_ID", "CRTC_ID", "ACTIVE", "MODE_ID"} : n \in KProps
  BY DEF Ids, KProps, Crtcs, IsCrtc, CONN, CRTC
<1>3. ASSUME NEW id \in Ids, NEW n \in KProps
      PROVE  /\ (\A i \in DOMAIN s : s[i].id = id => WholeIn(g, s, i)) => G[id][n] = A[id][n]
             /\ (\A i \in DOMAIN s : s[i].id = id => i \notin DOMAIN g) => G[id][n] = k[id][n]
  BY MergePart
<1>4. Consistent(A)
  BY DEF A
<1> HIDE DEF A, G
<1>5. G[CONN]["CRTC_ID"] = A[CONN]["CRTC_ID"]
  BY <1>2, <1>3
<1>6. ASSUME NEW id \in Ids \ {CONN} PROVE Fine(k, id) /\ Fine(A, id)
  BY <1>1, <1>4
<1>7. ASSUME \A c \in Crtcs \cap F : (k[CONN]["CRTC_ID"] = c) = (A[CONN]["CRTC_ID"] = c),
             NEW id \in Ids \ {CONN}
      PROVE  Fine(G, id)
  <2>1. Fine(k, id) /\ Fine(A, id)
    BY <1>6
  <2>2. CASE \A i \in DOMAIN s : s[i].id = id => WholeIn(g, s, i)
    <3>1. \A n \in KProps : G[id][n] = A[id][n]
      BY <1>3, <2>2
    <3>2. QED
      BY <1>2, <1>5, <2>1, <3>1
  <2>3. CASE \E i \in DOMAIN s : s[i].id = id /\ ~WholeIn(g, s, i)
    <3>1. PICK i \in DOMAIN s : s[i].id = id /\ ~WholeIn(g, s, i)
      BY <2>3
    <3>2. /\ i \notin DOMAIN g
          /\ id \in Crtcs => ((k[CONN]["CRTC_ID"] = id) = (A[CONN]["CRTC_ID"] = id))
      BY <1>7, <3>1
    <3>3. \A j \in DOMAIN s : s[j].id = id => j = i
      BY <3>1 DEF Commit
    <3>4. \A n \in KProps : G[id][n] = k[id][n]
      BY <1>3, <3>2, <3>3
    <3>5. QED
      BY <1>2, <1>5, <2>1, <3>2, <3>4
  <2>4. QED
    BY <2>2, <2>3
<1>8. ASSUME Consistent(G), NEW c \in Crtcs \cap F
      PROVE  (k[CONN]["CRTC_ID"] = c) = (A[CONN]["CRTC_ID"] = c)
  <2>1. c \in Ids \ {CONN}
    BY <1>2
  <2>2. G[c]["MODE_ID"] = k[c]["MODE_ID"]
    BY <1>2, <1>3, <2>1
  <2>3. Fine(k, c) /\ Fine(G, c)
    BY <1>1, <1>8, <2>1
  <2>4. QED
    BY <1>5, <2>2, <2>3
<1>9. QED
  BY <1>1, <1>7, <1>8 DEF A, G

(* Where the connector is linked after a commit.                            *)
LEMMA LinkedAfter ==
  ASSUME NEW s, Commit(s), NEW k
  PROVE  Merge(k, s)[CONN]["CRTC_ID"] = IF Dyn(s) THEN Target(s) ELSE k[CONN]["CRTC_ID"]
<1>1. CONN \in Ids /\ "CRTC_ID" \in KProps /\ Placed(s)
  BY CommitPlaced DEF Ids, KProps
<1>2. \A c, d \in DOMAIN s : s[c].id = CONN /\ s[d].id = CONN => c = d
  BY DEF Commit
<1> DEFINE A == Merge(k, s)
<1>3. /\ \A c \in DOMAIN s : s[c].id = CONN /\ Has(s[c], "CRTC_ID") =>
           A[CONN]["CRTC_ID"] = s[c].p["CRTC_ID"]
      /\ (\A c \in DOMAIN s : s[c].id = CONN => ~Has(s[c], "CRTC_ID")) =>
           A[CONN]["CRTC_ID"] = k[CONN]["CRTC_ID"]
  BY <1>1, <1>2, Merged
<1> HIDE DEF A
<1>4. CASE Dyn(s)
  <2>1. PICK c \in DOMAIN s : s[c].id = CONN /\ Has(s[c], "CRTC_ID")
    BY <1>4 DEF Dyn, ConnLinks
  <2>2. QED
    BY <1>3, <1>4, <2>1, Linked DEF A
<1>5. CASE ~Dyn(s)
  <2>1. \A c \in DOMAIN s : s[c].id = CONN => ~Has(s[c], "CRTC_ID")
    BY <1>5, Linked
  <2>2. QED
    BY <1>3, <1>5, <2>1 DEF A
<1>6. QED
  BY <1>4, <1>5

(* The copy leaves out every crtc but the one the connector is linked to.   *)
LEMMA LocalConsistent ==
  ASSUME NEW s, Commit(s), NEW k, Consistent(k), Consistent(Merge(k, s))
  PROVE  Consistent(Merge(k, Local(s))) <=>
           \A c \in Crtcs : ~(/\ Dyn(s) /\ (k[CONN]["CRTC_ID"] = c) # (Target(s) = c)
                              /\ c # Target(s))
<1> DEFINE g == Local(s)
           F == IF Dyn(s) THEN Crtcs \ {Target(s)} ELSE {}
<1>1. /\ DOMAIN g = {j \in DOMAIN s : KeptProps(s, s[j]) # {}}
      /\ \A i \in DOMAIN g :
           /\ g[i].id = s[i].id /\ DOMAIN g[i].p = KeptProps(s, s[i])
           /\ \A n \in KeptProps(s, s[i]) : g[i].p[n] = LocalValue(s[i], n)
  BY Copied
<1> HIDE DEF g
<1>2. \A i \in DOMAIN s : KeptProps(s, s[i]) \subseteq DOMAIN s[i].p
  BY Kept
<1>3. PartOf(g, s)
  <2>1. \A n \in KProps : n # "IN_FENCE_FD"
    BY DEF KProps
  <2>2. \A i \in DOMAIN s : \A n \in KProps : LocalValue(s[i], n) = s[i].p[n]
    BY <2>1 DEF LocalValue
  <2>3. QED
    BY <1>1, <1>2, <2>2 DEF PartOf
<1>4. ASSUME NEW i \in DOMAIN s, DOMAIN s[i].p \cap KProps \subseteq KeptProps(s, s[i])
      PROVE  WholeIn(g, s, i)
  BY <1>1, <1>4 DEF WholeIn
<1>5. ASSUME NEW i \in DOMAIN s
      PROVE  /\ \/ WholeIn(g, s, i)
                \/ s[i].id # CONN /\ i \notin DOMAIN g /\ (s[i].id \in Crtcs => s[i].id \in F)
             /\ s[i].id \in Crtcs \cap F => i \notin DOMAIN g
  <2>1. CASE ~Dyn(s)
    BY <1>4, <2>1, Kept
  <2>2. CASE Dyn(s) /\ IsConn(s[i])
    <3>1. KeptProps(s, s[i]) = DOMAIN s[i].p \cap {"CRTC_ID"} /\ s[i].id = CONN
      BY <2>2, Kept DEF IsConn
    <3>2. DOMAIN s[i].p \cap KProps \subseteq {"CRTC_ID"}
      BY <2>2 DEF IsConn, KProps, CrtcProps
    <3>3. WholeIn(g, s, i)
      BY <1>4, <3>1, <3>2
    <3>4. CONN \notin Crtcs
      BY DEF Crtcs, IsCrtc, CONN, CRTC
    <3>5. QED
      BY <3>1, <3>3, <3>4
  <2>3. CASE Dyn(s) /\ IsCrtc(s[i])
    <3>1. s[i] \in Entries
      BY EntryKinds
    <3>2. s[i].id \in Crtcs /\ s[i].id # CONN
      BY <2>3, <3>1 DEF Crtcs, IsCrtc
    <3>3. CASE s[i].id = Target(s)
      <4>1. KeptProps(s, s[i]) = DOMAIN s[i].p \cap {"MODE_ID", "ACTIVE"}
        BY <2>3, <3>3, Kept
      <4>2. DOMAIN s[i].p \cap KProps \subseteq {"MODE_ID", "ACTIVE"}
        BY <2>3 DEF IsCrtc, KProps, CrtcProps
      <4>3. QED
        BY <1>4, <3>3, <4>1, <4>2
    <3>4. CASE s[i].id # Target(s)
      <4>1. KeptProps(s, s[i]) = {}
        BY <2>3, <3>4, Kept
      <4>2. i \notin DOMAIN g
        BY <1>1, <4>1
      <4>3. QED
        BY <2>3, <3>2, <3>4, <4>2
    <3>5. QED
      BY <3>3, <3>4
  <2>4. CASE Dyn(s) /\ IsPlane(s[i])
    <3>1. KeptProps(s, s[i]) \in {{}, DOMAIN s[i].p} /\ s[i].id # CONN /\ s[i].id # CRTC
      BY <2>4, Kept DEF IsPlane
    <3>2. s[i] \in Entries
      BY EntryKinds
    <3>3. s[i].id \notin Crtcs
      BY <2>4, <3>1, <3>2, IdsAssumption DEF Crtcs
    <3>4. QED
      BY <1>1, <1>4, <3>1, <3>3
  <2>5. QED
    BY <2>1, <2>2, <2>3, <2>4, EntryKinds
<1>6. Consistent(Merge(k, g)) <=>
        \A c \in Crtcs \cap F : (k[CONN]["CRTC_ID"] = c) = (Merge(k, s)[CONN]["CRTC_ID"] = c)
  <2> HIDE DEF F
  <2>1. QED
    BY <1>3, <1>5, PartConsistent
<1>7. Dyn(s) => Merge(k, s)[CONN]["CRTC_ID"] = Target(s)
  BY LinkedAfter
<1>8. QED
  BY <1>6, <1>7 DEF g

(* The filter without KWINWRAP_HIJACK leaves out every crtc but 206.        *)
LEMMA FilteredConsistent ==
  ASSUME NEW s, Commit(s), NEW k, Consistent(k), Consistent(Merge(k, s)), Size(s) <= MaxRelay
  PROVE  Consistent(Merge(k, Filtered(s))) <=>
           \A c \in Crtcs : ~(Dyn(s) /\ (k[CONN]["CRTC_ID"] = c) # (Target(s) = c) /\ c # CRTC)
<1> DEFINE g == Filtered(s)
           F == Crtcs \ {CRTC}
<1>1. g = [i \in {j \in DOMAIN s : PlainProps(s[j]) # {}} |->
             [id |-> s[i].id, p |-> [n \in PlainProps(s[i]) |-> s[i].p[n]]]]
  <2>1. Size(s) \in Nat
    BY CommitSize
  <2>2. ~(Size(s) > MaxRelay)
    BY <2>1, StartsAssumption
  <2>3. QED
    BY <2>2 DEF Filtered
<1>2. /\ DOMAIN g = {j \in DOMAIN s : PlainProps(s[j]) # {}}
      /\ \A i \in DOMAIN g : /\ g[i].id = s[i].id /\ DOMAIN g[i].p = PlainProps(s[i])
                             /\ \A n \in PlainProps(s[i]) : g[i].p[n] = s[i].p[n]
  BY <1>1
<1> HIDE DEF g
<1>3. \A i \in DOMAIN s : PlainProps(s[i]) \subseteq DOMAIN s[i].p
  BY DEF PlainProps, CONN, CRTC
<1>4. PartOf(g, s)
  BY <1>2, <1>3 DEF PartOf
<1>5. ASSUME NEW i \in DOMAIN s, DOMAIN s[i].p \cap KProps \subseteq PlainProps(s[i])
      PROVE  WholeIn(g, s, i)
  BY <1>2, <1>5 DEF WholeIn
<1>6. ASSUME NEW i \in DOMAIN s
      PROVE  /\ \/ WholeIn(g, s, i)
                \/ s[i].id # CONN /\ i \notin DOMAIN g /\ (s[i].id \in Crtcs => s[i].id \in F)
             /\ s[i].id \in Crtcs \cap F => i \notin DOMAIN g
  <2>1. CASE IsConn(s[i])
    <3>1. PlainProps(s[i]) = DOMAIN s[i].p \cap {"CRTC_ID"} /\ s[i].id = CONN
      BY <2>1 DEF IsConn, PlainProps, CONN, CRTC
    <3>2. DOMAIN s[i].p \cap KProps \subseteq {"CRTC_ID"}
      BY <2>1 DEF IsConn, KProps, CrtcProps
    <3>3. CONN \notin Crtcs
      BY DEF Crtcs, IsCrtc, CONN, CRTC
    <3>4. QED
      BY <1>5, <3>1, <3>2, <3>3
  <2>2. CASE IsCrtc(s[i])
    <3>1. s[i] \in Entries /\ s[i].id # CONN /\ s[i].id # 97
      BY <2>2, EntryKinds DEF IsCrtc, VIRT
    <3>2. s[i].id \in Crtcs
      BY <2>2, <3>1 DEF Crtcs
    <3>3. CASE s[i].id = CRTC
      <4>1. PlainProps(s[i]) = DOMAIN s[i].p \cap {"MODE_ID", "ACTIVE"}
        BY <3>3 DEF PlainProps, CONN, CRTC
      <4>2. DOMAIN s[i].p \cap KProps \subseteq {"MODE_ID", "ACTIVE"}
        BY <2>2 DEF IsCrtc, KProps, CrtcProps
      <4>3. QED
        BY <1>5, <3>3, <4>1, <4>2
    <3>4. CASE s[i].id # CRTC
      <4>1. PlainProps(s[i]) = {}
        BY <3>1, <3>4 DEF PlainProps
      <4>2. i \notin DOMAIN g
        BY <1>2, <4>1
      <4>3. QED
        BY <3>1, <3>2, <3>4, <4>2
    <3>5. QED
      BY <3>3, <3>4
  <2>3. CASE IsPlane(s[i])
    <3>1. s[i] \in Entries /\ s[i].id # CONN /\ s[i].id # CRTC
      BY <2>3, EntryKinds DEF IsPlane
    <3>2. s[i].id \notin Crtcs
      BY <2>3, <3>1, IdsAssumption DEF Crtcs
    <3>3. PlainProps(s[i]) \in {{}, DOMAIN s[i].p}
      BY <3>1 DEF PlainProps
    <3>4. QED
      BY <1>2, <1>5, <3>1, <3>2, <3>3
  <2>4. QED
    BY <2>1, <2>2, <2>3, EntryKinds
<1>7. Consistent(Merge(k, g)) <=>
        \A c \in Crtcs \cap F : (k[CONN]["CRTC_ID"] = c) = (Merge(k, s)[CONN]["CRTC_ID"] = c)
  <2> HIDE DEF F
  <2>1. QED
    BY <1>4, <1>6, PartConsistent
<1>8. Merge(k, s)[CONN]["CRTC_ID"] = IF Dyn(s) THEN Target(s) ELSE k[CONN]["CRTC_ID"]
  BY LinkedAfter
<1>9. QED
  BY <1>7, <1>8 DEF g

(* What the copy and the filter leave of a commit the kernel would take, it *)
(* takes, but exactly for the commits in which the connector leaves or      *)
(* joins a crtc and the filter takes that crtc's part away: after those a   *)
(* crtc would have a mode and no connector, or the reverse.                 *)
THEOREM FilterConsistent == RelaySpec => []FilterKeepsConsistent
<1>1. RelayInv => FilterKeepsConsistent
  <2> SUFFICES ASSUME RelayInv, mode \in {"relay", "plain"}, phase = "sent", Consistent(kern),
                      Consistent(Merge(kern, asked))
               PROVE  Consistent(Merge(kern, Given)) <=> \A c \in Crtcs : ~Loses(c)
    BY DEF FilterKeepsConsistent
  <2>1. Commit(asked)
    BY DEF RelayInv, BuildInv
  <2>2. CASE mode = "relay"
    <3>1. Given = Local(asked)
      BY <2>2 DEF RelayInv, Given
    <3>2. QED
      BY <2>1, <2>2, <3>1, LocalConsistent DEF Loses
  <2>3. CASE mode = "plain" /\ Size(asked) <= MaxRelay
    <3>1. Given = Filtered(asked)
      BY <2>3 DEF RelayInv, Given
    <3>2. QED
      BY <2>1, <2>3, <3>1, FilteredConsistent DEF Loses
  <2>4. CASE mode = "plain" /\ ~(Size(asked) <= MaxRelay)
    <3>1. Size(asked) \in Nat
      BY <2>1, CommitSize
    <3>2. Size(asked) > MaxRelay
      BY <2>4, <3>1, StartsAssumption
    <3>3. Given = asked
      BY <2>4, <3>2 DEF RelayInv, Given, Filtered
    <3>4. QED
      BY <2>4, <3>3 DEF Loses
  <2>5. QED
    BY <2>2, <2>3, <2>4
<1>2. QED
  BY RelayInitially, RelayStep, <1>1, PTL DEF RelaySpec
=============================================================================
