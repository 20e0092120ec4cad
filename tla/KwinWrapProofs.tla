--------------------------- MODULE KwinWrapProofs ---------------------------
(* Theorems about KwinWrap, for every set of threads, files and phase slots. *)
EXTENDS KwinWrap, TLAPS, FiniteSetTheorems

LEMMA InitInv == Init => IInv
<1> SUFFICES ASSUME Init PROVE IInv
  OBVIOUS
<1>1. NoCall \in Calls /\ Free \in Phase
  BY DEF NoCall, Calls, Free, Phase, Results
<1>2. HIJACK \in BOOLEAN
  BY EnvsAssumption DEF Init
<1>3. TypeOK
  BY <1>1, <1>2 DEF Init, TypeOK, Results, Sources
<1>4. BootInv /\ FdInv
  BY DEF Init, BootInv, FdInv, Free
<1>5. ASSUME NEW t \in Threads PROVE PhaseInv(t) /\ Ledger(t)
  BY <1>5 DEF Init, PhaseInv, Ledger, Atomic, NoCall, Free
<1>6. QED
  BY <1>3, <1>4, <1>5 DEF IInv

LEMMA TypeStep == IInv /\ [Next]_vars => TypeOK'
<1> SUFFICES ASSUME IInv, [Next]_vars PROVE TypeOK'
  OBVIOUS
<1>0. TypeOK /\ FdInv
  BY DEF IInv
<1> USE <1>0, LeaderAssumption, FilesAssumption, EnvsAssumption
    DEF TypeOK, startup, kernel, thread, Sources, Files
<1>1. CASE Startup
  <2>1. CASE OpenCard \/ OpenCardFails
    BY <2>1 DEF OpenCard, OpenCardFails, AfterCardOpen
  <2>2. CASE ClaimMaster
    BY <2>2 DEF ClaimMaster
  <2>3. CASE ClaimFails
    BY <2>3 DEF ClaimFails
  <2>4. CASE CreateLease
    BY <2>4 DEF CreateLease
  <2>5. CASE WriteBrightness
    BY <2>5 DEF WriteBrightness
  <2>6. CASE DropMaster
    BY <2>6 DEF DropMaster
  <2>7. CASE Fork
    BY <2>7 DEF Fork, Phase, Fresh, Results
  <2>8. QED
    BY <1>1, <2>1, <2>2, <2>3, <2>4, <2>5, <2>6, <2>7 DEF Startup
<1>2. CASE RivalTakes \/ RivalReleases
  BY <1>2 DEF RivalTakes, RivalReleases
<1>3. CASE ChildGone
  BY <1>3 DEF ChildGone
<1>4. ASSUME NEW t \in Threads, User(t) PROVE TypeOK'
  <2>1. ASSUME NEW c \in Calls, Trap(t, c) PROVE TypeOK'
    BY <2>1 DEF Trap, Results
  <2>2. CASE CallOpen(t)
    BY <2>1, <2>2 DEF CallOpen, Calls
  <2>3. CASE CallGetres(t)
    BY <2>1, <2>3 DEF CallGetres, Calls, Held
  <2>4. CASE CallAtomic(t)
    BY <2>1, <2>4 DEF CallAtomic, Calls, Held
  <2>5. CASE Close(t)
    BY <2>5 DEF Close, Held
  <2>6. CASE ThreadExit(t)
    BY <2>6 DEF ThreadExit, Phase, Free, Results
  <2>7. CASE \E u \in Threads : Clone(t, u)
    BY <2>7 DEF Clone
  <2>8. QED
    BY <1>4, <2>2, <2>3, <2>4, <2>5, <2>6, <2>7 DEF User
<1>5. ASSUME NEW t \in Threads, Kernel(t) PROVE TypeOK'
  <2>1. CASE KernelOpen(t)
    <3>1. /\ node' \in [KFiles -> {"closed", "card", "render"}]
          /\ master' \in KFiles \cup {WrapFile, RivalFile, NoFile}
          /\ dups' = dups
      BY <2>1 DEF KernelOpen, Runs, AfterCardOpen, Calls
    <3>2. QED
      BY <2>1, <3>1 DEF KernelOpen, Return, Results
  <2>2. CASE KernelOpenFails(t)
    BY <2>2 DEF KernelOpenFails, Return, Results
  <2>3. CASE KernelDup(t)
    BY <2>3 DEF KernelDup, Return, Results, FdInv
  <2>4. CASE KernelSkip(t)
    BY <2>4 DEF KernelSkip, Return, Results
  <2>5. CASE KernelGetres(t)
    BY <2>5 DEF KernelGetres, Return, Results
  <2>6. CASE KernelAtomic(t)
    BY <2>6 DEF KernelAtomic, Return, Results, CommitResults
  <2>7. QED
    BY <1>5, <2>1, <2>2, <2>3, <2>4, <2>5, <2>6 DEF Kernel
<1>6. ASSUME NEW t \in Threads, Tracer(t) PROVE TypeOK'
  <2>1. ASSUME NEW sub \in {0, 2, 3, 4, 5, 6}, NEW hret \in Results,
               NEW x8 \in {"run", "dup", "skip"}, Resume(t, sub, hret, x8)
        PROVE  /\ ph' \in [Threads -> Phase]
               /\ reg8' \in [Threads -> {"run", "dup", "skip"}]
               /\ stat' \in [Threads -> {"none", "user", "entry", "kernel", "exit", "dead"}]
               /\ UNCHANGED <<startup, pcw, NATIVE, kernel, call, ret>>
    BY <2>1 DEF Resume, Phase
  <2>2. ph[t].hret \in Results /\ "none" \in Results
    BY DEF Phase, Results
  <2>3. CASE EntryOpenHijack(t)
    BY <2>1, <2>2, <2>3 DEF EntryOpenHijack
  <2>4. CASE EntryOpenReal(t)
    BY <2>1, <2>2, <2>4 DEF EntryOpenReal
  <2>5. CASE EntryGetres(t)
    <3>1. (IF HIJACK THEN 5 ELSE 0) \in {0, 2, 3, 4, 5, 6}
      OBVIOUS
    <3>2. QED
      BY <2>1, <2>2, <2>5, <3>1 DEF EntryGetres
  <2>6. CASE EntryProbe(t)
    BY <2>1, <2>2, <2>6 DEF EntryProbe
  <2>7. CASE EntryPassthrough(t)
    BY <2>1, <2>2, <2>7 DEF EntryPassthrough
  <2>8. CASE EntryRelay(t)
    <3>1. PICK rr \in RelayResults(CanCommit(RelayTarget)) :
            /\ Resume(t, 4, rr, "skip")
            /\ applied' = [applied EXCEPT ![t] = IF rr = "OK" THEN @ + 1 ELSE @]
      BY <2>8 DEF EntryRelay
    <3>2. rr \in Results
      BY <3>1 DEF RelayResults, CommitResults, Results
    <3>3. applied' \in [Threads -> Nat]
      BY <3>1
    <3>4. QED
      BY <2>1, <3>1, <3>2, <3>3
  <2>9. CASE EntryUnmanaged(t)
    BY <2>9 DEF EntryUnmanaged
  <2>10. ASSUME NEW r \in Results, Release(t, r)
         PROVE  /\ ph' \in [Threads -> Phase]
                /\ ret' \in [Threads -> Results]
                /\ stat' \in [Threads -> {"none", "user", "entry", "kernel", "exit", "dead"}]
                /\ UNCHANGED <<startup, pcw, node, dups, call, reg8>>
    BY <2>10 DEF Release, Phase
  <2>11. CASE ExitProbeNative(t)
    BY <2>10, <2>11 DEF ExitProbeNative
  <2>12. CASE ExitProbeRelay(t)
    <3>1. PICK rr \in RelayResults(SetMasterOK(WrapFile)) :
            /\ Release(t, rr)
            /\ applied' = [applied EXCEPT ![t] = IF rr = "OK" THEN @ + 1 ELSE @]
      BY <2>12 DEF ExitProbeRelay
    <3>2. rr \in Results
      BY <3>1 DEF RelayResults, CommitResults, Results
    <3>3. applied' \in [Threads -> Nat]
      BY <3>1
    <3>4. QED
      BY <2>10, <2>12, <3>1, <3>2, <3>3 DEF ExitProbeRelay
  <2>13. CASE ExitGetres(t)
    <3>1. PICK r \in IF ret[t] = "OK" THEN {"FILTERED", "RAW"} ELSE {ret[t]} : Release(t, r)
      BY <2>13 DEF ExitGetres
    <3>2. r \in Results
      BY <3>1 DEF Results
    <3>3. QED
      BY <2>10, <2>13, <3>1, <3>2 DEF ExitGetres
  <2>14. CASE ExitRelay(t)
    BY <2>2, <2>10, <2>14 DEF ExitRelay
  <2>15. CASE ExitPlain(t)
    BY <2>10, <2>15 DEF ExitPlain
  <2>16. CASE ExitUnmanaged(t)
    BY <2>16 DEF ExitUnmanaged
  <2>17. CASE EventStop(t)
    BY <2>17 DEF EventStop, Phase, Fresh, Results
  <2>18. QED
    BY <1>6, <2>3, <2>4, <2>5, <2>6, <2>7, <2>8, <2>9, <2>11, <2>12, <2>13, <2>14,
       <2>15, <2>16, <2>17 DEF Tracer, Entry, Exit
<1>7. CASE UNCHANGED vars
  BY <1>7 DEF vars
<1>8. QED
  BY <1>1, <1>2, <1>3, <1>4, <1>5, <1>6, <1>7 DEF Next

-----------------------------------------------------------------------------
(* The start-up order, and the descriptors later steps rely on.              *)
LEMMA BootStep == IInv /\ [Next]_vars => BootInv' /\ FdInv'
<1> SUFFICES ASSUME IInv, [Next]_vars PROVE BootInv' /\ FdInv'
  OBVIOUS
<1>0. TypeOK /\ BootInv /\ FdInv /\ \A t \in Threads : PhaseInv(t)
  BY DEF IInv
<1> USE <1>0, LeaderAssumption, FilesAssumption DEF startup, kernel, thread, BootInv, FdInv
<1>1. CASE Startup
  <2> USE DEF TypeOK, Sources
  <2>1. CASE OpenCard \/ OpenCardFails
    BY <2>1 DEF OpenCard, OpenCardFails
  <2>2. CASE ClaimMaster \/ CreateLease
    BY <2>2 DEF ClaimMaster, CreateLease, Files
  <2>3. CASE ClaimFails \/ WriteBrightness \/ DropMaster
    BY <2>3 DEF ClaimFails, WriteBrightness, DropMaster
  <2>4. CASE Fork
    BY <2>4 DEF Fork, Fresh
  <2>5. QED
    BY <1>1, <2>1, <2>2, <2>3, <2>4 DEF Startup
<1>2. CASE RivalTakes \/ RivalReleases \/ ChildGone
  BY <1>2 DEF RivalTakes, RivalReleases, ChildGone
<1>3. ASSUME NEW t \in Threads, User(t) \/ Kernel(t) \/ Tracer(t) PROVE BootInv' /\ FdInv'
  <2> USE DEF TypeOK
  <2>1. CASE User(t)
    <3>1. ASSUME NEW c, Trap(t, c) PROVE BootInv' /\ FdInv'
      BY <3>1 DEF Trap
    <3>2. CASE CallOpen(t) \/ CallGetres(t) \/ CallAtomic(t)
      BY <3>1, <3>2 DEF CallOpen, CallGetres, CallAtomic
    <3>3. CASE Close(t)
      BY <3>3 DEF Close
    <3>4. CASE ThreadExit(t)
      BY <3>4 DEF ThreadExit, Free
    <3>5. CASE \E u \in Threads : Clone(t, u)
      BY <3>5 DEF Clone
    <3>6. QED
      BY <2>1, <3>2, <3>3, <3>4, <3>5 DEF User
  <2>2. CASE Kernel(t)
    <3>1. \E r : Return(t, r)
      BY <2>2 DEF Kernel, KernelOpen, KernelOpenFails, KernelDup, KernelSkip, KernelGetres,
                  KernelAtomic
    <3>2. stat[t] = "kernel"
      BY <2>2 DEF Kernel, KernelOpen, KernelOpenFails, KernelDup, KernelSkip, KernelGetres,
                  KernelAtomic, Runs
    <3>3. QED
      BY <3>1, <3>2 DEF Return
  <2>3. CASE Entry(t)
    <3>1. ASSUME NEW sub, NEW hret, NEW x8, stat[t] = "entry", Resume(t, sub, hret, x8),
                 x8 = "dup" \/ sub = 6 => MASTERFD # NoFile
          PROVE  BootInv' /\ FdInv'
      BY <3>1 DEF Resume, Phase
    <3>2. CASE EntryOpenHijack(t)
      BY <3>1, <3>2 DEF EntryOpenHijack, Hijackable, AtEntry
    <3>3. CASE EntryOpenReal(t) \/ EntryGetres(t)
      BY <3>1, <3>3 DEF EntryOpenReal, EntryGetres, AtEntry
    <3>4. CASE EntryProbe(t) \/ EntryPassthrough(t) \/ EntryRelay(t)
      BY <3>1, <3>4 DEF EntryProbe, EntryPassthrough, EntryRelay, AtEntry
    <3>5. CASE EntryUnmanaged(t)
      BY <3>5 DEF EntryUnmanaged
    <3>6. QED
      BY <2>3, <3>2, <3>3, <3>4, <3>5 DEF Entry
  <2>4. CASE Exit(t)
    <3>1. ASSUME NEW r, stat[t] = "exit", Release(t, r),
                 NATIVE' = NATIVE \/ NATIVE' = "native" \/ MASTERFD # NoFile
          PROVE  BootInv' /\ FdInv'
      BY <3>1 DEF Release, Phase
    <3>2. CASE ExitProbeNative(t)
      BY <3>1, <3>2 DEF ExitProbeNative, AtExit
    <3>3. CASE ExitProbeRelay(t)
      BY <3>1, <3>3 DEF ExitProbeRelay, AtExit
    <3>4. CASE ExitGetres(t) \/ ExitRelay(t) \/ ExitPlain(t)
      BY <3>1, <3>4 DEF ExitGetres, ExitRelay, ExitPlain, AtExit
    <3>5. CASE ExitUnmanaged(t)
      BY <3>5 DEF ExitUnmanaged
    <3>6. QED
      BY <2>4, <3>2, <3>3, <3>4, <3>5 DEF Exit
  <2>5. CASE EventStop(t)
    BY <2>5 DEF EventStop, Fresh
  <2>6. QED
    BY <1>3, <2>1, <2>2, <2>3, <2>4, <2>5 DEF Tracer
<1>4. CASE UNCHANGED vars
  BY <1>4 DEF vars
<1>5. QED
  BY <1>1, <1>2, <1>3, <1>4 DEF Next

-----------------------------------------------------------------------------
(* A step that leaves a thread's part of the state alone keeps what is known *)
(* about the thread.                                                         *)
Same(t) == /\ stat'[t] = stat[t] /\ call'[t] = call[t] /\ reg8'[t] = reg8[t]
           /\ ret'[t] = ret[t] /\ applied'[t] = applied[t] /\ ph'[t] = ph[t]

Known(t) == PhaseInv(t) /\ (env.x8 => Ledger(t))

LEMMA FrameStep ==
  ASSUME NEW t \in Threads, Known(t), Same(t), env' = env
  PROVE  Known(t)'
BY DEF Known, Same, PhaseInv, Ledger, Atomic, Armed, NoCall

(* The start of the wrapper, the composer and the end of the child.          *)
LEMMA WrapperStep ==
  ASSUME IInv, Startup \/ RivalTakes \/ RivalReleases \/ ChildGone, NEW t \in Threads
  PROVE  Known(t)'
<1>0. Known(t) /\ TypeOK /\ BootInv
  BY DEF IInv, Known
<1> USE DEF startup, kernel, thread
<1>1. CASE Fork
  <2>1. CASE t = Leader
    BY <1>0, <1>1, <2>1, LeaderAssumption
       DEF Fork, Fresh, BootInv, Known, PhaseInv, Ledger, Atomic, NoCall, TypeOK
  <2>2. CASE t # Leader
    BY <1>0, <1>1, <2>2, FrameStep DEF Fork, Same, TypeOK
  <2>3. QED
    BY <2>1, <2>2
<1>2. CASE ChildGone
  BY <1>0, <1>2 DEF ChildGone, Known, PhaseInv, Ledger, Atomic
<1>3. CASE \/ OpenCard \/ OpenCardFails \/ ClaimMaster \/ ClaimFails
            \/ CreateLease \/ WriteBrightness \/ DropMaster
  BY <1>0, <1>3, FrameStep
     DEF OpenCard, OpenCardFails, ClaimMaster, ClaimFails, CreateLease, WriteBrightness,
         DropMaster, Same
<1>4. CASE RivalTakes \/ RivalReleases
  BY <1>0, <1>4, FrameStep DEF RivalTakes, RivalReleases, Same
<1>5. QED
  BY <1>1, <1>2, <1>3, <1>4 DEF Startup

(* What kwin does of its own accord.                                         *)
LEMMA UserStep ==
  ASSUME IInv, NEW t \in Threads, User(t), NEW u \in Threads
  PROVE  Known(u)'
<1>0. TypeOK /\ Known(t) /\ Known(u)
  BY DEF IInv, Known
<1> USE <1>0 DEF startup, kernel, thread, TypeOK
<1>1. ASSUME NEW c, Trap(t, c) PROVE Known(u)'
  <2>1. CASE u = t
    BY <1>1, <2>1 DEF Trap, Known, PhaseInv, Ledger, Atomic
  <2>2. CASE u # t
    BY <1>1, <2>2, FrameStep DEF Trap, Same
  <2>3. QED
    BY <2>1, <2>2
<1>2. CASE CallOpen(t) \/ CallGetres(t) \/ CallAtomic(t)
  BY <1>1, <1>2 DEF CallOpen, CallGetres, CallAtomic
<1>3. CASE Close(t)
  BY <1>3, FrameStep DEF Close, Same
<1>4. CASE ThreadExit(t)
  <2>1. CASE u = t
    BY <1>4, <2>1 DEF ThreadExit, Free, Known, PhaseInv, Ledger, Atomic
  <2>2. CASE u # t
    BY <1>4, <2>2, FrameStep DEF ThreadExit, Same
  <2>3. QED
    BY <2>1, <2>2
<1>5. ASSUME NEW v \in Threads, Clone(t, v) PROVE Known(u)'
  <2>1. CASE u = v
    BY <1>5, <2>1 DEF Clone, Known, PhaseInv, Ledger, Atomic, NoCall
  <2>2. CASE u # v
    BY <1>5, <2>2, FrameStep DEF Clone, Same
  <2>3. QED
    BY <2>1, <2>2
<1>6. QED
  BY <1>2, <1>3, <1>4, <1>5 DEF User

(* The kernel running a call.                                                *)
LEMMA KernelStep ==
  ASSUME IInv, NEW t \in Threads, Kernel(t), NEW u \in Threads
  PROVE  Known(u)'
<1>0. TypeOK /\ Known(t) /\ Known(u)
  BY DEF IInv, Known
<1> USE <1>0 DEF startup, kernel, thread, TypeOK
<1>1. stat[t] = "kernel" /\ \E r : Return(t, r)
  BY DEF Kernel, KernelOpen, KernelOpenFails, KernelDup, KernelSkip, KernelGetres,
         KernelAtomic, Runs
<1>2. applied' = applied \/ KernelAtomic(t)
  BY DEF Kernel, KernelOpen, KernelOpenFails, KernelDup, KernelSkip, KernelGetres
<1>3. CASE u # t
  BY <1>1, <1>2, <1>3, FrameStep DEF Return, Same, KernelAtomic
<1>4. PhaseInv(t)'
  BY <1>1 DEF Return, Known, PhaseInv, Atomic, Armed
<1>5. ASSUME env.x8, Atomic(t) PROVE Ledger(t)'
  <2>1. CASE KernelAtomic(t)
    <3>1. PICK r : /\ Return(t, r)
                   /\ applied' = [applied EXCEPT ![t] = IF r = "OK" THEN @ + 1 ELSE @]
      BY <2>1 DEF KernelAtomic
    <3>2. reg8[t] = "run" /\ ph[t].sub # 4 /\ applied[t] = 0
      BY <1>1, <1>5, <2>1 DEF KernelAtomic, Runs, Known, PhaseInv, Ledger
    <3>3. applied'[t] = (IF r = "OK" THEN 1 ELSE 0) /\ ret'[t] = r /\ ph' = ph
      BY <3>1, <3>2 DEF Return
    <3>4. stat'[t] \in {"user", "exit"}
      BY <3>1 DEF Return
    <3>5. QED
      BY <3>2, <3>3, <3>4 DEF Ledger
  <2>2. CASE KernelSkip(t)
    <3>1. ph[t].sub = 4 /\ Armed(t)
      BY <1>1, <2>2 DEF KernelSkip, Known, PhaseInv
    <3>2. stat'[t] = "exit" /\ ph' = ph /\ applied' = applied
      BY <2>2, <3>1 DEF KernelSkip, Return
    <3>3. applied[t] = IF ph[t].hret = "OK" THEN 1 ELSE 0
      BY <1>1, <1>5, <3>1 DEF Known, Ledger
    <3>4. QED
      BY <3>1, <3>2, <3>3 DEF Ledger
  <2>3. CASE KernelDup(t)
    BY <1>1, <1>5, <2>3 DEF KernelDup, Known, PhaseInv, Atomic
  <2>4. CASE KernelOpen(t) \/ KernelOpenFails(t) \/ KernelGetres(t)
    BY <1>5, <2>4 DEF KernelOpen, KernelOpenFails, KernelGetres, Runs, Atomic
  <2>5. QED
    BY <2>1, <2>2, <2>3, <2>4 DEF Kernel
<1>6. env' = env /\ call' = call
  BY <1>1 DEF Return
<1>7. QED
  BY <1>3, <1>4, <1>5, <1>6 DEF Known, Ledger, Atomic

(* The tracer at an entry stop.                                              *)
LEMMA EntryStep ==
  ASSUME IInv, NEW t \in Threads, Entry(t), NEW u \in Threads
  PROVE  Known(u)'
<1>0. TypeOK /\ Known(t) /\ Known(u)
  BY DEF IInv, Known
<1> USE <1>0 DEF startup, kernel, thread, TypeOK
<1>1. ASSUME NEW sub, NEW hret, NEW x8, Resume(t, sub, hret, x8), stat[t] = "entry",
             sub = 4 <=> x8 = "skip", sub = 3 <=> x8 = "dup",
             sub \in {2, 4, 6} => Atomic(t), sub = 5 => call[t].op = "getres",
             sub = 3 => call[t].op = "open",
             \A v \in Threads \ {t} : applied'[v] = applied[v],
             applied'[t] = IF sub = 4 /\ hret = "OK" THEN applied[t] + 1 ELSE applied[t]
      PROVE  Known(u)'
  <2>1. CASE u # t
    BY <1>1, <2>1, FrameStep DEF Resume, Same
  <2>2. /\ ph'[t] = [in |-> TRUE, p |-> IF env.secc THEN 1 ELSE 1 - ph[t].p,
                      sub |-> sub, hret |-> hret]
        /\ reg8'[t] = x8 /\ stat'[t] = "kernel" /\ call' = call /\ env' = env
        /\ applied[t] = 0
    BY <1>1 DEF Resume, Known, PhaseInv
  <2>3. PhaseInv(t)'
    BY <1>1, <2>2 DEF PhaseInv, Armed, Atomic
  <2>4. Ledger(t)'
    BY <1>1, <2>2 DEF Ledger
  <2>5. QED
    BY <2>1, <2>3, <2>4 DEF Known
<1>3. CASE EntryOpenHijack(t)
  BY <1>1, <1>3 DEF EntryOpenHijack, AtEntry, Atomic
<1>4. CASE EntryOpenReal(t)
  BY <1>1, <1>4 DEF EntryOpenReal, AtEntry
<1>5. CASE EntryGetres(t)
  BY <1>1, <1>5 DEF EntryGetres, AtEntry
<1>6. CASE EntryProbe(t) \/ EntryPassthrough(t)
  BY <1>1, <1>6 DEF EntryProbe, EntryPassthrough, AtEntry, Atomic
<1>7. CASE EntryRelay(t)
  <2>1. PICK rr : /\ Resume(t, 4, rr, "skip")
                  /\ applied' = [applied EXCEPT ![t] = IF rr = "OK" THEN @ + 1 ELSE @]
    BY <1>7 DEF EntryRelay
  <2>2. stat[t] = "entry" /\ Atomic(t)
    BY <1>7 DEF EntryRelay, AtEntry, Atomic
  <2>3. QED
    BY <1>1, <2>1, <2>2
<1>8. CASE EntryUnmanaged(t)
  <2>1. CASE u # t
    BY <1>8, <2>1, FrameStep DEF EntryUnmanaged, Same
  <2>2. ph[t].sub = 0 /\ reg8[t] = "run" /\ applied[t] = 0
    BY <1>8 DEF EntryUnmanaged, Known, PhaseInv
  <2>3. CASE u = t
    BY <1>8, <2>2, <2>3 DEF EntryUnmanaged, Known, PhaseInv, Ledger, Atomic, Armed
  <2>4. QED
    BY <2>1, <2>3
<1>9. QED
  BY <1>3, <1>4, <1>5, <1>6, <1>7, <1>8 DEF Entry

(* The tracer at an exit stop.                                               *)
LEMMA ExitStep ==
  ASSUME IInv, NEW t \in Threads, Exit(t), NEW u \in Threads
  PROVE  Known(u)'
<1>0. TypeOK /\ Known(t) /\ Known(u)
  BY DEF IInv, Known
<1> USE <1>0 DEF startup, kernel, thread, TypeOK
<1>1. ASSUME NEW r, Release(t, r), stat[t] = "exit",
             applied' = applied \/ \E n : applied' = [applied EXCEPT ![t] = n],
             env.x8 /\ Atomic(t) => applied'[t] = IF r = "OK" THEN 1 ELSE 0
      PROVE  Known(u)'
  <2>1. CASE u # t
    BY <1>1, <2>1, FrameStep DEF Release, Same
  <2>2. /\ ph'[t].in /\ ph'[t].sub = 0 /\ stat'[t] = "user" /\ ret'[t] = r
        /\ call' = call /\ env' = env
    BY <1>1 DEF Release
  <2>3. PhaseInv(t)'
    BY <2>2 DEF PhaseInv
  <2>4. env.x8 => Ledger(t)'
    BY <1>1, <2>2 DEF Ledger, Atomic
  <2>5. QED
    BY <2>1, <2>2, <2>3, <2>4 DEF Known
<1>2. ASSUME NEW r \in Results
      PROVE  /\ applied = [applied EXCEPT ![t] = applied[t]]
             /\ [applied EXCEPT ![t] = IF r = "OK" THEN @ + 1 ELSE @]
                  = [applied EXCEPT ![t] = IF r = "OK" THEN applied[t] + 1 ELSE applied[t]]
  OBVIOUS
<1>3. ASSUME stat[t] = "exit", ph[t].sub # 4, env.x8, Atomic(t)
      PROVE  applied[t] = IF ret[t] = "OK" THEN 1 ELSE 0
  BY <1>3 DEF Known, Ledger
<1>4. CASE ExitProbeNative(t)
  BY <1>1, <1>3, <1>4 DEF ExitProbeNative, AtExit
<1>5. CASE ExitProbeRelay(t)
  <2>1. PICK r : /\ Release(t, r)
                 /\ applied' = [applied EXCEPT ![t] = IF r = "OK" THEN @ + 1 ELSE @]
    BY <1>5 DEF ExitProbeRelay
  <2>2. stat[t] = "exit" /\ (env.x8 /\ Atomic(t) => applied[t] = 0)
    BY <1>3, <1>5 DEF ExitProbeRelay, AtExit
  <2>3. env.x8 /\ Atomic(t) => applied'[t] = IF r = "OK" THEN 1 ELSE 0
    BY <2>1, <2>2
  <2>4. QED
    BY <1>1, <2>1, <2>2, <2>3
<1>6. CASE ExitGetres(t)
  <2>1. ~Atomic(t) /\ stat[t] = "exit"
    BY <1>6 DEF ExitGetres, AtExit, Known, PhaseInv, Atomic
  <2>2. QED
    BY <1>1, <1>6, <2>1 DEF ExitGetres
<1>7. CASE ExitRelay(t)
  <2>1. env.x8 /\ Atomic(t) => applied[t] = IF ph[t].hret = "OK" THEN 1 ELSE 0
    BY <1>7 DEF ExitRelay, AtExit, Known, Ledger
  <2>2. QED
    BY <1>1, <1>7, <2>1 DEF ExitRelay, AtExit
<1>8. CASE ExitPlain(t)
  BY <1>1, <1>3, <1>8 DEF ExitPlain, AtExit
<1>9. CASE ExitUnmanaged(t)
  <2>1. CASE u # t
    BY <1>9, <2>1, FrameStep DEF ExitUnmanaged, Same
  <2>2. ph[t].sub = 0
    BY <1>9 DEF ExitUnmanaged, HasSlot, Known, PhaseInv
  <2>3. CASE u = t
    BY <1>9, <2>2, <2>3 DEF ExitUnmanaged, Known, PhaseInv, Ledger, Atomic
  <2>4. QED
    BY <2>1, <2>3
<1>10. QED
  BY <1>4, <1>5, <1>6, <1>7, <1>8, <1>9 DEF Exit

(* A run keeps the environment it was started in.                            *)
LEMMA EnvUnchanged == [Next]_vars => env' = env
BY DEF Next, vars, startup, Startup, OpenCard, OpenCardFails, ClaimMaster, ClaimFails, CreateLease,
   WriteBrightness, DropMaster, Fork, RivalTakes, RivalReleases, ChildGone, User, CallOpen,
   CallGetres, CallAtomic, Trap, Close, ThreadExit, Clone, Kernel, KernelOpen,
   KernelOpenFails, KernelDup, KernelSkip, KernelGetres, KernelAtomic, Return, Tracer,
   Entry, EntryOpenHijack, EntryOpenReal, EntryGetres, EntryProbe, EntryPassthrough,
   EntryRelay, EntryUnmanaged, Resume, Exit, ExitProbeNative, ExitProbeRelay, ExitGetres,
   ExitRelay, ExitPlain, ExitUnmanaged, Release, EventStop

(* The inductive invariant.                                                  *)
LEMMA Inductive == Spec => []IInv
<1>1. IInv /\ [Next]_vars => IInv'
  <2> SUFFICES ASSUME IInv, [Next]_vars PROVE IInv'
    OBVIOUS
  <2>1. TypeOK' /\ BootInv' /\ FdInv'
    BY TypeStep, BootStep
  <2>2. env' = env
    BY EnvUnchanged
  <2>3. ASSUME NEW u \in Threads PROVE Known(u)'
    <3>1. Known(u)
      BY DEF IInv, Known
    <3>2. ASSUME NEW t \in Threads, EventStop(t) PROVE Known(u)'
      <4>1. CASE u # t
        BY <3>1, <3>2, <4>1, FrameStep DEF EventStop, Same, IInv, TypeOK, startup, thread
      <4>2. CASE u = t
        BY <3>1, <3>2, <4>2 DEF EventStop, IInv, TypeOK, startup, Fresh,
           Known, PhaseInv, Ledger, Atomic
      <4>3. QED
        BY <4>1, <4>2
    <3>3. CASE UNCHANGED vars
      BY <3>1, <3>3, FrameStep DEF vars, thread, startup, Same
    <3>4. QED
      BY <3>2, <3>3, WrapperStep, UserStep, KernelStep, EntryStep, ExitStep DEF Next, Tracer
  <2>4. QED
    BY <2>1, <2>2, <2>3 DEF IInv, Known
<1>2. QED
  BY InitInv, <1>1, PTL DEF Spec

(* Every variable of the wrapper, of the kernel and of the traced threads    *)
(* stays in the range the code gives it.                                     *)
THEOREM TypeCorrect == Spec => []TypeOK
<1>1. IInv => TypeOK
  BY DEF IInv
<1>2. QED
  BY Inductive, <1>1, PTL

(* Whatever the threads of kwin do, with any number of them and any number   *)
(* of phase slots, a commit that is reported successful took effect exactly  *)
(* once and a commit that is reported failed did not: the raw run of the     *)
(* probe, the relay and the skipped original never add up to two or to none. *)
THEOREM CommitsHonest == Spec => []HonestResult
<1>1. IInv => HonestResult
  <2> SUFFICES ASSUME IInv, env.x8, NEW t \in Threads, stat[t] = "user", Atomic(t)
               PROVE  applied[t] = IF ret[t] = "OK" THEN 1 ELSE 0
    BY DEF HonestResult, Atomic
  <2>1. Ledger(t)
    BY DEF IInv
  <2>2. QED
    BY <2>1 DEF Ledger
<1>2. QED
  BY Inductive, <1>1, PTL

(* Once the relay holds master nothing takes it away before the child is     *)
(* gone: not an open or a close of kwin's, not the composer, not a second    *)
(* probe.                                                                    *)
THEOREM RelayOwnsPanel == Spec => RelayKeepsMaster
<1>1. IInv /\ [Next]_vars =>
        [NATIVE = "relay" /\ master = WrapFile => master' = WrapFile \/ pcw' = "done"]_vars
  <2> SUFFICES ASSUME IInv, [Next]_vars, NATIVE = "relay", master = WrapFile
               PROVE  master' = WrapFile \/ pcw' = "done"
    OBVIOUS
  <2>1. WrapFile # NoFile /\ WrapFile # RivalFile /\ WrapFile \notin KFiles
    BY FilesAssumption DEF Files, Sources
  <2>2. pcw \in {"loop", "done"}
    BY DEF IInv, BootInv
  <2> USE <2>1, <2>2 DEF startup, kernel, thread
  <2>3. CASE Startup
    BY <2>3 DEF Startup, OpenCard, OpenCardFails, ClaimMaster, ClaimFails, CreateLease,
       WriteBrightness, DropMaster, Fork
  <2>4. CASE RivalTakes \/ RivalReleases \/ ChildGone
    BY <2>4 DEF RivalTakes, RivalReleases, ChildGone
  <2>5. ASSUME NEW t \in Threads, User(t) PROVE master' = WrapFile
    BY <2>5 DEF User, CallOpen, CallGetres, CallAtomic, Trap, Close, ThreadExit, Clone
  <2>6. ASSUME NEW t \in Threads, Kernel(t) PROVE master' = WrapFile
    BY <2>6 DEF Kernel, KernelOpen, KernelOpenFails, KernelDup, KernelSkip, KernelGetres,
       KernelAtomic, AfterCardOpen
  <2>7. ASSUME NEW t \in Threads, Tracer(t) PROVE master' = WrapFile
    BY <2>7 DEF Tracer, Entry, EntryOpenHijack, EntryOpenReal, EntryGetres, EntryProbe,
       EntryPassthrough, EntryRelay, EntryUnmanaged, Resume, Exit, ExitProbeNative,
       ExitProbeRelay, ExitGetres, ExitRelay, ExitPlain, ExitUnmanaged, EventStop, SetMasterOK
  <2>8. CASE UNCHANGED vars
    BY <2>8 DEF vars
  <2>9. QED
    BY <2>3, <2>4, <2>5, <2>6, <2>7, <2>8 DEF Next
<1>2. QED
  BY Inductive, <1>1, PTL DEF Spec, RelayKeepsMaster

-----------------------------------------------------------------------------
(* With a slot for every thread, a GETRESOURCES call is marked at its entry, *)
(* stops at its exit and is filtered there.                                  *)
Roomy == Cardinality(Threads) <= MaxPhases

Marked(t) ==
  HIJACK /\ call[t].op = "getres" =>
    /\ stat[t] \in {"kernel", "exit"} => ph[t].sub = 5
    /\ stat[t] = "user" => ret[t] # "OK"

LEMMA SlotForAll ==
  ASSUME IsFiniteSet(Threads), Roomy, NEW t \in Threads PROVE HasSlot(t)
<1> SUFFICES ASSUME ~ph[t].in PROVE Cardinality(Registered) < MaxPhases
  BY DEF HasSlot
<1>1. Registered \in SUBSET Threads /\ Registered # Threads
  BY DEF Registered
<1>2. Cardinality(Registered) <= Cardinality(Threads) /\ Cardinality(Registered) # Cardinality(Threads)
  BY <1>1, FS_Subset
<1>3. Cardinality(Registered) \in Nat /\ Cardinality(Threads) \in Nat
  BY <1>1, FS_Subset, FS_CardinalityType
<1>4. QED
  BY <1>2, <1>3, PhasesAssumption DEF Roomy

(* A thread that takes no part in a step stays as it is.                     *)
LEMMA MarkStays ==
  ASSUME NEW t \in Threads, Marked(t), HIJACK' => HIJACK, call'[t] = call[t],
         stat'[t] = stat[t], ret'[t] = ret[t],
         ph'[t] = ph[t] \/ stat[t] \notin {"kernel", "exit"}
  PROVE  Marked(t)'
BY DEF Marked

LEMMA UserMarks ==
  ASSUME IInv, NEW t \in Threads, User(t), NEW u \in Threads, Marked(u) PROVE Marked(u)'
<1>0. TypeOK /\ PhaseInv(t) /\ PhaseInv(u)
  BY DEF IInv
<1> USE <1>0 DEF startup, kernel, thread, TypeOK
<1>1. ASSUME NEW c, Trap(t, c) PROVE Marked(u)'
  <2>1. CASE u = t
    BY <1>1, <2>1 DEF Trap, Marked
  <2>2. CASE u # t
    BY <1>1, <2>2, MarkStays DEF Trap
  <2>3. QED
    BY <2>1, <2>2
<1>2. CASE CallOpen(t) \/ CallGetres(t) \/ CallAtomic(t)
  BY <1>1, <1>2 DEF CallOpen, CallGetres, CallAtomic
<1>3. CASE Close(t)
  BY <1>3, MarkStays DEF Close
<1>4. CASE ThreadExit(t)
  BY <1>4 DEF ThreadExit, Marked
<1>5. ASSUME NEW v \in Threads, Clone(t, v) PROVE Marked(u)'
  <2>1. CASE u = v
    BY <1>5, <2>1 DEF Clone, Marked, PhaseInv, NoCall
  <2>2. CASE u # v
    BY <1>5, <2>2, MarkStays DEF Clone
  <2>3. QED
    BY <2>1, <2>2
<1>6. QED
  BY <1>2, <1>3, <1>4, <1>5 DEF User

(* The kernel returns a marked call to its exit stop.                        *)
LEMMA KernelMarks ==
  ASSUME IInv, NEW t \in Threads, Kernel(t), NEW u \in Threads, Marked(u) PROVE Marked(u)'
<1>0. TypeOK /\ PhaseInv(t)
  BY DEF IInv
<1> USE <1>0 DEF startup, TypeOK
<1>1. stat[t] = "kernel" /\ \E r : Return(t, r)
  BY DEF Kernel, KernelOpen, KernelOpenFails, KernelDup, KernelSkip, KernelGetres,
         KernelAtomic, Runs
<1>2. CASE u = t
  BY <1>1, <1>2 DEF Return, Marked, PhaseInv
<1>3. CASE u # t
  BY <1>1, <1>3, MarkStays DEF Return
<1>4. QED
  BY <1>2, <1>3

LEMMA TracerMarks ==
  ASSUME IsFiniteSet(Threads), Roomy, IInv, NEW t \in Threads, Tracer(t),
         NEW u \in Threads, Marked(u)
  PROVE  Marked(u)'
<1>0. TypeOK /\ PhaseInv(t) /\ HasSlot(t)
  BY SlotForAll DEF IInv
<1> USE <1>0 DEF startup, kernel, TypeOK
<1>1. CASE EntryGetres(t)
  <2>1. CASE u = t
    BY <1>1, <2>1 DEF EntryGetres, Resume, Marked
  <2>2. CASE u # t
    BY <1>1, <2>2, MarkStays DEF EntryGetres, Resume
  <2>3. QED
    BY <2>1, <2>2
<1>2. ASSUME NEW sub, NEW hret, NEW x8, Resume(t, sub, hret, x8), call[t].op # "getres"
      PROVE  Marked(u)'
  <2>1. CASE u = t
    BY <1>2, <2>1 DEF Resume, Marked
  <2>2. CASE u # t
    BY <1>2, <2>2, MarkStays DEF Resume
  <2>3. QED
    BY <2>1, <2>2
<1>3. CASE EntryOpenHijack(t) \/ EntryOpenReal(t) \/ EntryProbe(t) \/ EntryPassthrough(t) \/ EntryRelay(t)
  BY <1>2, <1>3 DEF EntryOpenHijack, EntryOpenReal, EntryProbe, EntryPassthrough, EntryRelay, AtEntry
<1>4. ASSUME NEW r, Release(t, r), stat[t] = "exit", ph[t].sub = 5 => r # "OK" PROVE Marked(u)'
  <2>1. CASE u = t
    BY <1>4, <2>1 DEF Release, Marked
  <2>2. CASE u # t
    BY <1>4, <2>2, MarkStays DEF Release
  <2>3. QED
    BY <2>1, <2>2
<1>5. CASE ExitGetres(t)
  <2>1. PICK r : Release(t, r) /\ (ret[t] # "OK" => r = ret[t]) /\ (ret[t] = "OK" => r # "OK")
    BY <1>5 DEF ExitGetres
  <2>2. QED
    BY <1>4, <1>5, <2>1 DEF ExitGetres, AtExit
<1>6. CASE ExitProbeNative(t) \/ ExitProbeRelay(t) \/ ExitRelay(t) \/ ExitPlain(t)
  BY <1>4, <1>6 DEF ExitProbeNative, ExitProbeRelay, ExitRelay, ExitPlain, AtExit
<1>7. CASE EventStop(t)
  <2>1. CASE u = t
    BY <1>7, <2>1 DEF EventStop, Marked
  <2>2. CASE u # t
    BY <1>7, <2>2, MarkStays DEF EventStop
  <2>3. QED
    BY <2>1, <2>2
<1>8. ~EntryUnmanaged(t) /\ ~ExitUnmanaged(t)
  BY DEF EntryUnmanaged, ExitUnmanaged
<1>9. QED
  BY <1>1, <1>3, <1>5, <1>6, <1>7, <1>8 DEF Tracer, Entry, Exit

LEMMA WrapperMarks ==
  ASSUME IInv, Startup \/ RivalTakes \/ RivalReleases \/ ChildGone, NEW u \in Threads, Marked(u)
  PROVE  Marked(u)'
<1>0. TypeOK /\ BootInv /\ PhaseInv(u)
  BY DEF IInv
<1> USE <1>0 DEF startup, kernel, thread, TypeOK
<1>1. CASE Fork
  BY <1>1, LeaderAssumption DEF Fork, Marked, BootInv, PhaseInv, NoCall
<1>2. CASE ChildGone
  BY <1>2 DEF ChildGone, Marked
<1>3. CASE \/ OpenCard \/ OpenCardFails \/ ClaimMaster \/ ClaimFails
            \/ CreateLease \/ WriteBrightness \/ DropMaster
  BY <1>3, MarkStays
     DEF OpenCard, OpenCardFails, ClaimMaster, ClaimFails, CreateLease, WriteBrightness, DropMaster
<1>4. CASE RivalTakes \/ RivalReleases
  BY <1>4, MarkStays DEF RivalTakes, RivalReleases
<1>5. QED
  BY <1>1, <1>2, <1>3, <1>4 DEF Startup

(* As long as phases[] has room for every thread, no successful GETRESOURCES *)
(* answer of any thread of kwin gets round filter_getres(): not before the    *)
(* probe, not across the decision between native and relay, and not in a     *)
(* thread the wrapper meets late.  What filter_getres() gives up on is passed *)
(* on as it is, and says so in the model by "RAW".                           *)
THEOREM FilterNeverBypassed == ASSUME IsFiniteSet(Threads) PROVE Spec => []NeverPastFilter
<1> DEFINE Inv == Roomy => \A t \in Threads : Marked(t)
<1>1. Init => Inv
  BY DEF Init, Marked, NoCall
<1>2. IInv /\ Inv /\ [Next]_vars => Inv'
  <2> SUFFICES ASSUME IInv, Inv, [Next]_vars, Roomy, NEW u \in Threads PROVE Marked(u)'
    BY DEF Roomy
  <2>1. Marked(u)
    OBVIOUS
  <2>2. CASE UNCHANGED vars
    BY <2>1, <2>2, MarkStays DEF vars, thread, startup
  <2>3. CASE Startup \/ RivalTakes \/ RivalReleases \/ ChildGone
    BY <2>1, <2>3, WrapperMarks
  <2>4. ASSUME NEW t \in Threads, User(t) \/ Kernel(t) \/ Tracer(t) PROVE Marked(u)'
    BY <2>1, <2>4, UserMarks, KernelMarks, TracerMarks
  <2>5. QED
    BY <2>2, <2>3, <2>4 DEF Next
<1>3. Inv => NeverPastFilter
  BY DEF NeverPastFilter, Marked, Roomy
<1>4. QED
  BY Inductive, <1>1, <1>2, <1>3, PTL DEF Spec

-----------------------------------------------------------------------------
(* The decision of the probe.  While it is open, kwin holds no dup of        *)
(* HIJACK_FD, so the commits that probe are on files of kwin's own: none of  *)
(* them can have succeeded while the wrapper was master.                     *)
HandInv ==
  /\ pcw \in {"fork", "loop"} /\ HIJACK /\ ~env.lease /\ NATIVE = "probe" => master # WrapFile
  /\ NATIVE = "probe" => dups = {}

ProbeInv(t) ==
  NATIVE = "probe" =>
    /\ reg8[t] # "dup"
    /\ Atomic(t) => call[t].arg \in KFiles
    /\ stat[t] = "exit" /\ ph[t].sub = 6 /\ master = WrapFile => ret[t] = "EACCES"

Undecided == HandInv /\ \A t \in Threads : ProbeInv(t)

LEMMA InitUndecided == Init => Undecided
BY FilesAssumption DEF Init, Undecided, HandInv, ProbeInv, Atomic, NoCall, Files, Sources

LEMMA WrapperUndecided ==
  ASSUME IInv, Undecided, Startup \/ RivalTakes \/ RivalReleases \/ ChildGone
  PROVE  Undecided'
<1>0. TypeOK /\ BootInv /\ \A t \in Threads : PhaseInv(t)
  BY DEF IInv
<1> USE <1>0, FilesAssumption
    DEF startup, kernel, thread, TypeOK, BootInv, Files, Sources, Undecided, Atomic
<1>1. ASSUME NEW u \in Threads, Startup PROVE ProbeInv(u)'
  <2>1. CASE Fork
    BY <1>1, <2>1, LeaderAssumption DEF Fork, PhaseInv, ProbeInv, NoCall
  <2>2. CASE \/ OpenCard \/ OpenCardFails \/ ClaimMaster \/ ClaimFails
             \/ CreateLease \/ WriteBrightness \/ DropMaster
    BY <2>2 DEF OpenCard, OpenCardFails, ClaimMaster, ClaimFails, CreateLease, WriteBrightness,
       DropMaster, ProbeInv
  <2>3. QED
    BY <1>1, <2>1, <2>2 DEF Startup
<1>2. CASE Startup
  <2>1. HandInv'
    <3>1. CASE OpenCard \/ OpenCardFails \/ Fork
      BY <3>1 DEF OpenCard, OpenCardFails, Fork, HandInv
    <3>2. CASE ClaimMaster \/ ClaimFails
      BY <3>2 DEF ClaimMaster, ClaimFails, HandInv
    <3>3. CASE CreateLease \/ WriteBrightness \/ DropMaster
      BY <3>3 DEF CreateLease, WriteBrightness, DropMaster, HandInv
    <3>4. QED
      BY <1>2, <3>1, <3>2, <3>3 DEF Startup
  <2>2. QED
    BY <1>1, <1>2, <2>1
<1>3. CASE RivalTakes \/ RivalReleases
  BY <1>3 DEF RivalTakes, RivalReleases, HandInv, ProbeInv
<1>4. CASE ChildGone
  BY <1>4 DEF ChildGone, HandInv, ProbeInv
<1>5. QED
  BY <1>2, <1>3, <1>4

LEMMA UserUndecided ==
  ASSUME IInv, Undecided, NEW t \in Threads, User(t) PROVE Undecided'
<1>0. TypeOK /\ \A u \in Threads : PhaseInv(u)
  BY DEF IInv
<1> USE <1>0, FilesAssumption
    DEF startup, kernel, thread, TypeOK, Files, Sources, Undecided, Atomic
<1>1. ASSUME NEW c, Trap(t, c), c.op = "atomic" => c.arg \in Held
      PROVE Undecided'
  BY <1>1 DEF Trap, Held, HandInv, ProbeInv
<1>2. CASE CallOpen(t) \/ CallGetres(t) \/ CallAtomic(t)
  BY <1>1, <1>2 DEF CallOpen, CallGetres, CallAtomic
<1>3. CASE Close(t)
  BY <1>3 DEF Close, Held, HandInv, ProbeInv
<1>4. CASE ThreadExit(t)
  BY <1>4 DEF ThreadExit, Free, HandInv, ProbeInv
<1>5. ASSUME NEW v \in Threads, Clone(t, v) PROVE Undecided'
  BY <1>5 DEF Clone, HandInv, ProbeInv
<1>6. QED
  BY <1>2, <1>3, <1>4, <1>5 DEF User

(* A commit on a file of kwin's is refused while the wrapper is master.      *)
LEMMA KernelUndecided ==
  ASSUME IInv, Undecided, NEW t \in Threads, Kernel(t) PROVE Undecided'
<1>0. TypeOK /\ BootInv /\ PhaseInv(t)
  BY DEF IInv
<1>1. stat[t] = "kernel" /\ pcw \in {"loop", "done"}
  BY <1>0 DEF Kernel, KernelOpen, KernelOpenFails, KernelDup, KernelSkip, KernelGetres,
     KernelAtomic, Runs, BootInv, TypeOK
<1> USE <1>0, <1>1, FilesAssumption
    DEF startup, TypeOK, Files, Sources, Undecided, Atomic
<1>2. /\ \E r : Return(t, r)
      /\ NATIVE = "probe" => dups' = dups
      /\ master' \in KFiles \cup {master}
  BY DEF kernel, Kernel, KernelOpen, KernelOpenFails, KernelDup, KernelSkip, KernelGetres,
     KernelAtomic, Runs, AfterCardOpen, ProbeInv
<1>3. HandInv'
  BY <1>2 DEF Return, HandInv
<1>4. ASSUME NEW u \in Threads, u # t PROVE ProbeInv(u)'
  BY <1>2, <1>4 DEF Return, ProbeInv
<1>5. ProbeInv(t)'
  <2>1. CASE NATIVE # "probe" \/ ph[t].sub # 6
    BY <1>2, <2>1 DEF Return, ProbeInv
  <2>2. CASE NATIVE = "probe" /\ ph[t].sub = 6
    <3>1. KernelAtomic(t) /\ call[t].arg \in KFiles
      BY <2>2 DEF Kernel, KernelOpen, KernelOpenFails, KernelDup, KernelSkip, KernelGetres, Runs,
         PhaseInv, ProbeInv
    <3>2. PICK r \in CommitResults(CanCommit(call[t].arg)) : Return(t, r)
      BY <3>1 DEF KernelAtomic
    <3>3. master = WrapFile => r = "EACCES"
      BY <3>1, <3>2 DEF CommitResults, CanCommit
    <3>4. QED
      BY <2>2, <3>1, <3>2, <3>3 DEF KernelAtomic, kernel, Return, ProbeInv
  <2>3. QED
    BY <2>1, <2>2
<1>6. QED
  BY <1>3, <1>4, <1>5

LEMMA EntryUndecided ==
  ASSUME IInv, Undecided, NEW t \in Threads, Entry(t) PROVE Undecided'
<1>0. TypeOK /\ PhaseInv(t)
  BY DEF IInv
<1> USE <1>0 DEF startup, kernel, thread, TypeOK, Undecided, Atomic
<1>1. ASSUME NEW sub, NEW hret, NEW x8, stat[t] = "entry", Resume(t, sub, hret, x8),
             x8 = "dup" => NATIVE = "relay"
      PROVE  Undecided'
  BY <1>1 DEF Resume, HandInv, ProbeInv
<1>2. CASE EntryOpenHijack(t) \/ EntryOpenReal(t) \/ EntryGetres(t)
  BY <1>1, <1>2 DEF EntryOpenHijack, EntryOpenReal, EntryGetres, Hijackable, AtEntry
<1>3. CASE EntryProbe(t) \/ EntryPassthrough(t) \/ EntryRelay(t)
  BY <1>1, <1>3 DEF EntryProbe, EntryPassthrough, EntryRelay, AtEntry
<1>4. CASE EntryUnmanaged(t)
  BY <1>4 DEF EntryUnmanaged, HandInv, ProbeInv
<1>5. QED
  BY <1>2, <1>3, <1>4 DEF Entry

LEMMA ExitUndecided ==
  ASSUME IInv, Undecided, NEW t \in Threads, Exit(t) PROVE Undecided'
<1>0. TypeOK
  BY DEF IInv
<1> USE <1>0 DEF startup, kernel, thread, TypeOK, Undecided, Atomic
<1>1. CASE ExitProbeNative(t) \/ ExitProbeRelay(t)
  BY <1>1 DEF ExitProbeNative, ExitProbeRelay, HandInv, ProbeInv
<1>2. CASE ExitGetres(t) \/ ExitRelay(t) \/ ExitPlain(t)
  BY <1>2 DEF ExitGetres, ExitRelay, ExitPlain, Release, HandInv, ProbeInv
<1>3. CASE ExitUnmanaged(t)
  BY <1>3 DEF ExitUnmanaged, HandInv, ProbeInv
<1>4. QED
  BY <1>1, <1>2, <1>3 DEF Exit

LEMMA AlwaysUndecided == Spec => []Undecided
<1>1. IInv /\ Undecided /\ [Next]_vars => Undecided'
  <2> SUFFICES ASSUME IInv, Undecided, [Next]_vars PROVE Undecided'
    OBVIOUS
  <2>1. CASE UNCHANGED vars
    BY <2>1 DEF vars, startup, kernel, thread, Undecided, HandInv, ProbeInv, Atomic
  <2>2. ASSUME NEW t \in Threads, EventStop(t) PROVE Undecided'
    BY <2>2 DEF EventStop, startup, kernel, Fresh, IInv, TypeOK, Undecided, HandInv, ProbeInv,
       Atomic
  <2>3. QED
    BY <2>1, <2>2, WrapperUndecided, UserUndecided, KernelUndecided, EntryUndecided,
       ExitUndecided DEF Next, Tracer
<1>2. QED
  BY Inductive, InitUndecided, <1>1, PTL DEF Spec

(* However many threads of kwin commit, the wrapper shuts out a kwin that was *)
(* found to be master in one way only: by the answer "native" of a probe that *)
(* the answer "relay" of another has overtaken.  No probe succeeds while the  *)
(* wrapper is master, and nothing but a refused probe makes it master.        *)
THEOREM LockedOutOnlyOvertaken == Spec => NativeNotLockedOut
<1>1. IInv /\ Undecided /\ [Next]_vars => [~LockedOut /\ LockedOut' => Overtaken]_vars
  <2> SUFFICES ASSUME IInv, Undecided, [Next]_vars, ~LockedOut, LockedOut' PROVE Overtaken
    OBVIOUS
  <2>0. BootInv /\ NATIVE \in {"probe", "native", "relay"}
    BY DEF IInv, TypeOK
  <2>1. WrapFile # NoFile /\ WrapFile # RivalFile /\ WrapFile \notin KFiles
    BY FilesAssumption DEF Files, Sources
  <2> USE <2>0, <2>1 DEF startup, kernel, thread, LockedOut
  <2>2. CASE Startup
    BY <2>2 DEF Startup, OpenCard, OpenCardFails, ClaimMaster, ClaimFails, CreateLease,
       WriteBrightness, DropMaster, Fork, BootInv
  <2>3. CASE RivalTakes \/ RivalReleases \/ ChildGone
    BY <2>3 DEF RivalTakes, RivalReleases, ChildGone
  <2>4. ASSUME NEW t \in Threads, User(t) PROVE FALSE
    BY <2>4 DEF User, CallOpen, CallGetres, CallAtomic, Trap, Close, ThreadExit, Clone
  <2>5. ASSUME NEW t \in Threads, Kernel(t) PROVE FALSE
    BY <2>5 DEF Kernel, KernelOpen, KernelOpenFails, KernelDup, KernelSkip, KernelGetres,
       KernelAtomic, AfterCardOpen, Return, Runs
  <2>6. ASSUME NEW t \in Threads, ExitProbeNative(t) PROVE Overtaken
    <3>1. AtExit(t, {6}) /\ ret[t] # "EACCES" /\ master = WrapFile
      BY <2>6 DEF ExitProbeNative
    <3>2. NATIVE = "relay"
      BY <3>1 DEF Undecided, ProbeInv, AtExit
    <3>3. QED
      BY <3>1, <3>2 DEF Overtaken
  <2>7. ASSUME NEW t \in Threads, Tracer(t) PROVE ExitProbeNative(t)
    BY <2>7 DEF Tracer, Entry, EntryOpenHijack, EntryOpenReal, EntryGetres, EntryProbe,
       EntryPassthrough, EntryRelay, EntryUnmanaged, Resume, Exit, ExitProbeRelay, ExitGetres,
       ExitRelay, ExitPlain, ExitUnmanaged, Release, EventStop
  <2>8. CASE UNCHANGED vars
    BY <2>8 DEF vars
  <2>9. QED
    BY <2>2, <2>3, <2>4, <2>5, <2>6, <2>7, <2>8 DEF Next
<1>2. QED
  BY Inductive, AlwaysUndecided, <1>1, PTL DEF Spec, NativeNotLockedOut

(* A wrapper that has claimed the panel, and was not asked to lease it, is   *)
(* not master from the fork until a probe of kwin's has been answered.       *)
THEOREM HandsOverMaster == Spec => []MasterHandedOver
<1>1. Undecided => MasterHandedOver
  BY DEF Undecided, HandInv, MasterHandedOver
<1>2. QED
  BY AlwaysUndecided, <1>1, PTL

-----------------------------------------------------------------------------
(* The refinement.  What CommitService sees of one thread.                   *)
Waits(t)  == Atomic(t) /\ stat[t] \in {"entry", "kernel", "exit"}
Effect(t) == IF Atomic(t) THEN applied[t] ELSE 0
Told(t)   == IF ~Atomic(t) \/ stat[t] # "user" THEN "none"
             ELSE IF ret[t] = "OK" THEN "ok" ELSE "failed"

Unseen(t) == Waits(t)' = Waits(t) /\ Effect(t)' = Effect(t) /\ Told(t)' = Told(t)

Turns(t)    == ~Waits(t) /\ Effect(t)' = 0 /\ Told(t)' = "none"
Effects(t)  == Waits(t) /\ Waits(t)' /\ Effect(t) = 0 /\ Effect(t)' = 1 /\ Told(t)' = Told(t)
Answers(t)  == /\ Waits(t) /\ ~Waits(t)' /\ Effect(t)' \in {Effect(t), 1}
               /\ Told(t)' = IF Effect(t)' = 1 THEN "ok" ELSE "failed"
Abandons(t) == ~Waits(t)' /\ Effect(t)' = Effect(t) /\ Told(t)' = "none"

(* What the variables of CommitService stand for. *)
Waiting == {t \in Threads : Atomic(t) /\ stat[t] \in {"entry", "kernel", "exit"}}
EffectOf == [t \in Threads |-> IF Atomic(t) THEN applied[t] ELSE 0]
ToldOf == [t \in Threads |-> IF ~Atomic(t) \/ stat[t] # "user" THEN "none"
                                ELSE IF ret[t] = "OK" THEN "ok" ELSE "failed"]

LEMMA StutterMaps ==
  ASSUME \A u \in Threads : Unseen(u) PROVE UNCHANGED Service!cvars
<1>1. Waiting' = Waiting
  BY DEF Unseen, Waits, Waiting
<1>2. EffectOf' = EffectOf
  BY DEF Unseen, Effect, EffectOf
<1>3. ToldOf' = ToldOf
  BY DEF Unseen, Told, ToldOf
<1>4. QED
  BY <1>1, <1>2, <1>3 DEF Service!cvars, Waiting, EffectOf, ToldOf

LEMMA ThreadMaps ==
  ASSUME NEW t \in Threads, \A u \in Threads : u # t => Unseen(u),
         Turns(t) \/ Effects(t) \/ Answers(t) \/ Abandons(t)
  PROVE  Service!CNext
<1>1. /\ Waiting' = IF Waits(t)' THEN Waiting \cup {t} ELSE Waiting \ {t}
      /\ Waits(t) <=> t \in Waiting
  BY DEF Unseen, Waits, Waiting
<1>2. EffectOf' = [EffectOf EXCEPT ![t] = Effect(t)'] /\ EffectOf[t] = Effect(t)
  BY DEF Unseen, Effect, EffectOf
<1>3. ToldOf' = [ToldOf EXCEPT ![t] = Told(t)'] /\ ToldOf[t] = Told(t)
  BY DEF Unseen, Told, ToldOf
<1>4. EffectOf = [EffectOf EXCEPT ![t] = Effect(t)] /\ ToldOf = [ToldOf EXCEPT ![t] = Told(t)]
  BY DEF EffectOf, Effect, ToldOf, Told
<1> HIDE DEF Waits, Effect, Told
<1>5. CASE Turns(t)
  <2>1. Service!Turn(t)
    BY <1>1, <1>2, <1>3, <1>5 DEF Turns, Service!Turn, Waiting, EffectOf, ToldOf
  <2>2. QED
    BY <2>1 DEF Service!CNext
<1>6. CASE Effects(t)
  <2>1. Service!TakeEffect(t)
    BY <1>1, <1>2, <1>3, <1>4, <1>6 DEF Effects, Service!TakeEffect, Waiting, EffectOf, ToldOf
  <2>2. QED
    BY <2>1 DEF Service!CNext
<1>7. CASE Answers(t)
  <2>1. Service!Answer(t)
    BY <1>1, <1>2, <1>3, <1>4, <1>7 DEF Answers, Service!Answer, Waiting, EffectOf, ToldOf
  <2>2. QED
    BY <2>1 DEF Service!CNext
<1>8. CASE Abandons(t)
  <2>1. Service!Abandon({t})
    BY <1>1, <1>2, <1>3, <1>4, <1>8 DEF Abandons, Service!Abandon, Waiting, EffectOf, ToldOf
  <2>2. QED
    BY <2>1 DEF Service!CNext
<1>9. QED
  BY <1>5, <1>6, <1>7, <1>8

(* Every step of the wrapper, of the kernel and of kwin's threads is a step  *)
(* of the service or unseen by it.                                           *)
LEMMA WrapperServes ==
  ASSUME IInv, Startup \/ RivalTakes \/ RivalReleases \/ ChildGone
  PROVE  [Service!CNext]_(Service!cvars)
<1>0. TypeOK /\ BootInv /\ \A t \in Threads : PhaseInv(t)
  BY DEF IInv
<1> USE DEF startup, kernel, thread
<1>1. CASE Fork
  <2>1. \A t \in Threads : Unseen(t)
    BY <1>0, <1>1, LeaderAssumption
       DEF Fork, TypeOK, BootInv, PhaseInv, NoCall, Unseen, Waits, Effect, Told, Atomic
  <2>2. QED
    BY <2>1, StutterMaps
<1>2. CASE ChildGone
  <2>1. Service!Abandon(Threads)
    BY <1>2 DEF ChildGone, Service!Abandon, Atomic
  <2>2. QED
    BY <2>1 DEF Service!CNext
<1>3. CASE \/ OpenCard \/ OpenCardFails \/ ClaimMaster \/ ClaimFails
            \/ CreateLease \/ WriteBrightness \/ DropMaster
  <2>1. \A t \in Threads : Unseen(t)
    BY <1>3 DEF OpenCard, OpenCardFails, ClaimMaster, ClaimFails, CreateLease, WriteBrightness,
       DropMaster, Unseen, Waits, Effect, Told, Atomic
  <2>2. QED
    BY <2>1, StutterMaps
<1>4. CASE RivalTakes \/ RivalReleases
  <2>1. \A t \in Threads : Unseen(t)
    BY <1>4 DEF RivalTakes, RivalReleases, Unseen, Waits, Effect, Told, Atomic
  <2>2. QED
    BY <2>1, StutterMaps
<1>5. QED
  BY <1>1, <1>2, <1>3, <1>4 DEF Startup

LEMMA UserServes ==
  ASSUME IInv, NEW t \in Threads, User(t) PROVE [Service!CNext]_(Service!cvars)
<1>0. TypeOK /\ \A u \in Threads : PhaseInv(u)
  BY DEF IInv
<1> USE <1>0 DEF startup, kernel, thread, TypeOK, Unseen, Waits, Effect, Told, Atomic
<1>1. ASSUME NEW c, Trap(t, c) PROVE Service!CNext
  <2>1. \A u \in Threads : u # t => Unseen(u)
    BY <1>1 DEF Trap
  <2>2. Turns(t)
    BY <1>1 DEF Trap, Turns
  <2>3. QED
    BY <2>1, <2>2, ThreadMaps
<1>2. CASE CallOpen(t) \/ CallGetres(t) \/ CallAtomic(t)
  BY <1>1, <1>2 DEF CallOpen, CallGetres, CallAtomic
<1>3. CASE Close(t)
  <2>1. \A u \in Threads : Unseen(u)
    BY <1>3 DEF Close
  <2>2. QED
    BY <2>1, StutterMaps
<1>4. CASE ThreadExit(t)
  <2>1. \A u \in Threads : u # t => Unseen(u)
    BY <1>4 DEF ThreadExit
  <2>2. Abandons(t)
    BY <1>4 DEF ThreadExit, Abandons
  <2>3. QED
    BY <2>1, <2>2, ThreadMaps
<1>5. ASSUME NEW v \in Threads, Clone(t, v) PROVE UNCHANGED Service!cvars
  <2>1. \A u \in Threads : Unseen(u)
    BY <1>5 DEF Clone, PhaseInv, NoCall
  <2>2. QED
    BY <2>1, StutterMaps
<1>6. QED
  BY <1>2, <1>3, <1>4, <1>5 DEF User

(* A call that returns answers its thread, or leaves it to the exit stop.    *)
LEMMA KernelServes ==
  ASSUME IInv, env.x8, NEW t \in Threads, Kernel(t) PROVE [Service!CNext]_(Service!cvars)
<1>0. TypeOK /\ PhaseInv(t) /\ Ledger(t)
  BY DEF IInv
<1>1. stat[t] = "kernel" /\ \E r : Return(t, r)
  BY DEF Kernel, KernelOpen, KernelOpenFails, KernelDup, KernelSkip, KernelGetres,
         KernelAtomic, Runs
<1>2. applied' = applied \/ KernelAtomic(t)
  BY DEF Kernel, KernelOpen, KernelOpenFails, KernelDup, KernelSkip, KernelGetres
<1>3. \A u \in Threads : u # t => Unseen(u)
  BY <1>0, <1>1, <1>2
     DEF Return, KernelAtomic, TypeOK, Unseen, Waits, Effect, Told, Atomic
<1>4. CASE ~Atomic(t)
  <2>1. Unseen(t)
    BY <1>0, <1>1, <1>4 DEF Return, TypeOK, Unseen, Waits, Effect, Told, Atomic
  <2>2. QED
    BY <1>3, <2>1, StutterMaps
<1>5. CASE Atomic(t) /\ KernelAtomic(t)
  <2>1. PICK r : /\ Return(t, r)
                 /\ applied' = [applied EXCEPT ![t] = IF r = "OK" THEN @ + 1 ELSE @]
    BY <1>5 DEF KernelAtomic
  <2>2. applied[t] = 0
    BY <1>0, <1>1, <1>5 DEF KernelAtomic, Runs, PhaseInv, Ledger
  <2>3. /\ applied'[t] = (IF r = "OK" THEN 1 ELSE 0) /\ ret'[t] = r
        /\ stat'[t] \in {"user", "exit"} /\ call' = call
    BY <1>0, <2>1, <2>2 DEF Return, TypeOK
  <2>4. CASE stat'[t] = "user"
    <3>1. Answers(t)
      BY <1>1, <1>5, <2>2, <2>3, <2>4 DEF Answers, Waits, Effect, Told, Atomic
    <3>2. QED
      BY <1>3, <3>1, ThreadMaps
  <2>5. CASE stat'[t] = "exit"
    <3>1. Effects(t) \/ Unseen(t)
      BY <1>1, <1>5, <2>2, <2>3, <2>5 DEF Effects, Unseen, Waits, Effect, Told, Atomic
    <3>2. QED
      BY <1>3, <3>1, ThreadMaps, StutterMaps
  <2>6. QED
    BY <2>3, <2>4, <2>5
<1>6. CASE KernelSkip(t)
  <2>1. Unseen(t)
    BY <1>0, <1>1, <1>6
       DEF KernelSkip, Return, PhaseInv, TypeOK, Unseen, Waits, Effect, Told, Atomic
  <2>2. QED
    BY <1>3, <2>1, StutterMaps
<1>7. CASE Atomic(t) /\ ~KernelAtomic(t) /\ ~KernelSkip(t)
  BY <1>0, <1>1, <1>7 DEF Kernel, KernelOpen, KernelOpenFails, KernelDup, KernelGetres, Runs,
     PhaseInv, Atomic
<1>8. QED
  BY <1>4, <1>5, <1>6, <1>7

LEMMA EntryServes ==
  ASSUME IInv, env.x8, NEW t \in Threads, Entry(t) PROVE [Service!CNext]_(Service!cvars)
<1>0. TypeOK /\ PhaseInv(t)
  BY DEF IInv
<1> USE <1>0 DEF startup, kernel, thread, TypeOK, Unseen, Waits, Effect, Told, Atomic
<1>1. ASSUME NEW sub, NEW hret, NEW x8, stat[t] = "entry", Resume(t, sub, hret, x8),
             applied' = applied
      PROVE  UNCHANGED Service!cvars
  <2>1. \A u \in Threads : Unseen(u)
    BY <1>1 DEF Resume
  <2>2. QED
    BY <2>1, StutterMaps
<1>2. CASE EntryOpenHijack(t) \/ EntryOpenReal(t) \/ EntryGetres(t) \/ EntryProbe(t) \/ EntryPassthrough(t)
  BY <1>1, <1>2 DEF EntryOpenHijack, EntryOpenReal, EntryGetres, EntryProbe, EntryPassthrough,
     AtEntry
<1>3. CASE EntryRelay(t)
  <2>1. PICK rr : /\ Resume(t, 4, rr, "skip")
                  /\ applied' = [applied EXCEPT ![t] = IF rr = "OK" THEN @ + 1 ELSE @]
    BY <1>3 DEF EntryRelay
  <2>2. stat[t] = "entry" /\ call[t].op = "atomic" /\ applied[t] = 0
    BY <1>3 DEF EntryRelay, AtEntry, PhaseInv
  <2>3. \A u \in Threads : u # t => Unseen(u)
    BY <2>1 DEF Resume
  <2>4. Effects(t) \/ Unseen(t)
    BY <2>1, <2>2 DEF Resume, Effects
  <2>5. QED
    BY <2>3, <2>4, ThreadMaps, StutterMaps
<1>4. CASE EntryUnmanaged(t)
  <2>1. \A u \in Threads : Unseen(u)
    BY <1>4 DEF EntryUnmanaged
  <2>2. QED
    BY <2>1, StutterMaps
<1>5. QED
  BY <1>2, <1>3, <1>4 DEF Entry

(* At the exit stop the thread is told what the ledger says.                 *)
LEMMA ExitServes ==
  ASSUME IInv, env.x8, NEW t \in Threads, Exit(t) PROVE [Service!CNext]_(Service!cvars)
<1>0. TypeOK /\ Ledger(t) /\ stat[t] = "exit"
  BY DEF IInv, Exit, ExitProbeNative, ExitProbeRelay, ExitGetres, ExitRelay, ExitPlain,
     ExitUnmanaged, AtExit
<1>1. Known(t)'
  BY ExitStep
<1>2. /\ stat' = [stat EXCEPT ![t] = "user"] /\ call' = call /\ env' = env
      /\ \A u \in Threads : u # t => applied'[u] = applied[u] /\ ret'[u] = ret[u]
      /\ applied'[t] = applied[t] \/ (ph[t].sub # 4 /\ ret[t] = "EACCES")
  BY <1>0 DEF Exit, ExitProbeNative, ExitProbeRelay, ExitGetres, ExitRelay, ExitPlain,
     ExitUnmanaged, AtExit, Release, startup, kernel, TypeOK
<1>3. \A u \in Threads : u # t => Unseen(u)
  BY <1>0, <1>2 DEF TypeOK, Unseen, Waits, Effect, Told, Atomic
<1>4. CASE ~Atomic(t)
  <2>1. Unseen(t)
    BY <1>0, <1>2, <1>4 DEF TypeOK, Unseen, Waits, Effect, Told, Atomic
  <2>2. QED
    BY <1>3, <2>1, StutterMaps
<1>5. CASE Atomic(t)
  <2>1. applied'[t] = (IF ret'[t] = "OK" THEN 1 ELSE 0) /\ stat'[t] = "user"
    BY <1>0, <1>1, <1>2, <1>5 DEF Known, Ledger, TypeOK, Atomic
  <2>2. applied'[t] \in {applied[t], 1}
    BY <1>0, <1>2, <1>5, <2>1 DEF Ledger
  <2>3. Answers(t)
    BY <1>0, <1>2, <1>5, <2>1, <2>2 DEF Answers, Waits, Effect, Told, Atomic
  <2>4. QED
    BY <1>3, <2>3, ThreadMaps
<1>6. QED
  BY <1>4, <1>5

(* Where the kernel honours x8, KwinWrap implements the service: whatever    *)
(* path a commit takes (probe, native, relay, skipped or unmanaged), kwin    *)
(* sees one effect at most, before the answer, and an answer that says so.   *)
THEOREM ServesCommits == Spec /\ env.x8 => ImplementsService
<1>1. Init => Service!CInit
  BY DEF Init, Service!CInit, NoCall, Atomic
<1>2. env.x8 /\ [Next]_vars => (env.x8)'
  BY EnvUnchanged
<1>3. IInv /\ env.x8 /\ [Next]_vars => [Service!CNext]_(Service!cvars)
  <2> SUFFICES ASSUME IInv, env.x8, [Next]_vars PROVE [Service!CNext]_(Service!cvars)
    OBVIOUS
  <2>1. CASE UNCHANGED vars
    <3>1. \A u \in Threads : Unseen(u)
      BY <2>1 DEF vars, thread, Unseen, Waits, Effect, Told, Atomic
    <3>2. QED
      BY <3>1, StutterMaps
  <2>2. ASSUME NEW t \in Threads, EventStop(t) PROVE UNCHANGED Service!cvars
    <3>1. \A u \in Threads : Unseen(u)
      BY <2>2 DEF EventStop, Unseen, Waits, Effect, Told, Atomic
    <3>2. QED
      BY <3>1, StutterMaps
  <2>3. QED
    BY <2>1, <2>2, WrapperServes, UserServes, KernelServes, EntryServes, ExitServes DEF Next, Tracer
<1>4. QED
  BY Inductive, <1>1, <1>2, <1>3, PTL DEF Spec, ImplementsService, Service!CSpec
=============================================================================
