------------------------------ MODULE KwinWrap ------------------------------
(***************************************************************************)
(* kwinwrap (src/src/kwinwrap.c): the ptrace supervisor that takes DRM     *)
(* master from Android, hands it to kwin, and from then on watches every   *)
(* open of a DRM node, every GETRESOURCES and every MODE_ATOMIC commit of  *)
(* kwin's threads.                                                         *)
(*                                                                         *)
(* The tracer is one thread; the tracees run concurrently with it and with *)
(* each other.  A traced system call goes through                          *)
(*                                                                         *)
(*   user --Call--> entry --tracer--> kernel --kernel--> exit --tracer--> user *)
(*                                                                         *)
(* and the tracer decides at the entry stop what the kernel will run and   *)
(* at the exit stop what the thread is told.  What a commit contains is    *)
(* the subject of SplitCommit; here a commit either takes effect or not.   *)
(***************************************************************************)
EXTENDS Naturals, FiniteSets

CONSTANTS
  Threads,      \* threads of the traced process tree
  Leader,       \* the forked child itself
  Committers,   \* the threads kwin issues MODE_ATOMIC from
  KFiles,       \* open file descriptions kwin can hold on DRM nodes
  WrapFile,     \* the description behind DRMFD and its dup HIJACK_FD
  LeaseFile,    \* the lessee description of KWINWRAP_LEASE
  RivalFile,    \* the Android composer's description
  NoFile,
  MaxPhases,    \* size of phases[] (512 in the code)
  Envs          \* the environments a run starts in, see Init

Sources == {WrapFile, LeaseFile}
Files   == KFiles \cup Sources

ASSUME LeaderAssumption == Leader \in Threads /\ Committers \subseteq Threads
ASSUME FilesAssumption ==
  /\ NoFile \notin Files \cup {RivalFile}
  /\ RivalFile \notin Files
  /\ WrapFile # LeaseFile /\ KFiles \cap Sources = {}
ASSUME PhasesAssumption == MaxPhases \in Nat \ {0}
(* hijack, lease, secc: the KWINWRAP_ variables.  x8: does the kernel run   *)
(* the system call number the tracer leaves in x8?  The code relies on it   *)
(* (kwinwrap.c:421-426) and a comment there reports a kernel that did not   *)
(* (kwinwrap.c:273-276).                                                    *)
ASSUME EnvsAssumption ==
  Envs \subseteq [hijack : BOOLEAN, lease : BOOLEAN, secc : BOOLEAN, x8 : BOOLEAN]

VARIABLES
  env,       \* the environment this run was started in
  pcw,       \* where main() of the wrapper is
  HIJACK, MASTERFD, RELAYFD,
  NATIVE,    \* -1 unknown, 1 kwin commits itself, 0 relay; here "probe", "native", "relay"
  bright,    \* what became of the start-up brightness write
  master,    \* the kernel's current master: a file or NoFile
  node,      \* what each of kwin's own descriptions is open on
  dups,      \* descriptions kwin obtained through the hijack
  stat,      \* where each thread is
  call,      \* its current or last system call
  reg8,      \* what x8 makes of that call: run it, dup(HIJACK_FD), or skip it
  ret,       \* its result register
  applied,   \* how often the current commit took effect (history variable)
  ph         \* phases[], by thread

startup == <<env, HIJACK, MASTERFD, RELAYFD, bright>>
kernel  == <<master, node, dups>>
thread  == <<stat, call, reg8, ret, applied, ph>>
vars    == <<startup, pcw, NATIVE, kernel, thread>>

(* "FILTERED", "RAW": an answer to GETRESOURCES that filter_getres() has     *)
(* rewritten, or has looked at and left as the kernel wrote it.             *)
Results == {"none", "OK", "FILTERED", "RAW", "EINVAL", "EACCES", "ENOSYS"}
Calls   == [op : {"open"}, arg : {"card", "render", "other"}]
             \cup [op : {"atomic", "getres"}, arg : Files]
Phase   == [in : BOOLEAN, p : {0, 1}, sub : {0, 2, 3, 4, 5, 6}, hret : Results]
Free    == [in |-> FALSE, p |-> 0, sub |-> 0, hret |-> "none"]
Fresh   == [in |-> TRUE, p |-> 0, sub |-> 0, hret |-> "none"]
NoCall  == [op |-> "open", arg |-> "other"]

TypeOK ==
  /\ env \in Envs
  /\ pcw \in {"open", "claim", "lease", "bright", "drop", "fork", "loop", "done"}
  /\ HIJACK \in BOOLEAN
  /\ MASTERFD \in Sources \cup {NoFile}
  /\ RELAYFD \in {LeaseFile, NoFile}
  /\ NATIVE \in {"probe", "native", "relay"}
  /\ bright \in {"unset", "OK", "EACCES"}
  /\ master \in KFiles \cup {WrapFile, RivalFile, NoFile}
  /\ node \in [KFiles -> {"closed", "card", "render"}]
  /\ dups \subseteq Sources
  /\ stat \in [Threads -> {"none", "user", "entry", "kernel", "exit", "dead"}]
  /\ call \in [Threads -> Calls]
  /\ reg8 \in [Threads -> {"run", "dup", "skip"}]
  /\ ret \in [Threads -> Results]
  /\ applied \in [Threads -> Nat]
  /\ ph \in [Threads -> Phase]

Init ==
  /\ env \in Envs
  /\ pcw = "open"
  /\ HIJACK = env.hijack
  /\ MASTERFD = NoFile /\ RELAYFD = NoFile /\ NATIVE = "probe" /\ bright = "unset"
  /\ master \in {NoFile, RivalFile}
  /\ node = [f \in KFiles |-> "closed"]
  /\ dups = {}
  /\ stat = [t \in Threads |-> "none"]
  /\ call = [t \in Threads |-> NoCall]
  /\ reg8 = [t \in Threads |-> "run"]
  /\ ret = [t \in Threads |-> "none"]
  /\ applied = [t \in Threads |-> 0]
  /\ ph = [t \in Threads |-> Free]

-----------------------------------------------------------------------------
(* The kernel's master rules, as the code uses them: the first open of a    *)
(* card node becomes master when nobody is, SET_MASTER is EBUSY while       *)
(* another file is master, and a commit on any file but the master (or a    *)
(* lessee of the master) is EACCES.                                         *)
AfterCardOpen(f) == IF master = NoFile THEN f ELSE master
SetMasterOK(f)   == master \in {NoFile, f}
CanCommit(f)     == f = master \/ (f = LeaseFile /\ master = WrapFile)
CommitResults(may) == IF may THEN {"OK", "EINVAL"} ELSE {"EACCES"}

(* Android's composer, running beside the wrapper. *)
RivalTakes ==
  /\ master = NoFile /\ master' = RivalFile
  /\ UNCHANGED <<startup, pcw, NATIVE, node, dups, thread>>

RivalReleases ==
  /\ master = RivalFile /\ master' = NoFile
  /\ UNCHANGED <<startup, pcw, NATIVE, node, dups, thread>>

-----------------------------------------------------------------------------
(* main() up to the fork. *)
OpenCard ==
  /\ pcw = "open"
  /\ master' = AfterCardOpen(WrapFile)
  /\ pcw' = IF HIJACK THEN "claim" ELSE "fork"
  /\ UNCHANGED <<startup, NATIVE, node, dups, thread>>

OpenCardFails ==
  /\ pcw = "open"
  /\ HIJACK' = FALSE
  /\ pcw' = "fork"
  /\ UNCHANGED <<env, MASTERFD, RELAYFD, bright, NATIVE, kernel, thread>>

(* SET_MASTER on DRMFD, dup2 to HIJACK_FD, capabilities, pre-disable commit. *)
ClaimMaster ==
  /\ pcw = "claim" /\ SetMasterOK(WrapFile)
  /\ master' = WrapFile
  /\ MASTERFD' = WrapFile
  /\ pcw' = IF env.lease THEN "lease" ELSE "bright"
  /\ UNCHANGED <<env, HIJACK, RELAYFD, bright, NATIVE, node, dups, thread>>

(* SET_MASTER is refused, or dup2 fails after it.                           *)
ClaimFails ==
  /\ pcw = "claim"
  /\ \/ ~SetMasterOK(WrapFile) /\ UNCHANGED master
     \/ SetMasterOK(WrapFile) /\ master' = WrapFile
  /\ HIJACK' = FALSE
  /\ pcw' = "fork"
  /\ UNCHANGED <<env, MASTERFD, RELAYFD, bright, NATIVE, node, dups, thread>>

(* The lease may be refused; once it is there, the dup for RELAYFD and the  *)
(* dup2 to HIJACK_FD may each fail.                                         *)
CreateLease ==
  /\ pcw = "lease"
  /\ \/ RELAYFD' \in {LeaseFile, NoFile} /\ MASTERFD' \in {LeaseFile, WrapFile}
     \/ UNCHANGED <<RELAYFD, MASTERFD>>
  /\ pcw' = "bright"
  /\ UNCHANGED <<env, HIJACK, bright, NATIVE, kernel, thread>>

(* With KWINWRAP_BRIGHTNESS set, as by desk-takeover.sh:125. *)
WriteBrightness ==
  /\ pcw = "bright"
  /\ bright' = IF CanCommit(WrapFile) THEN "OK" ELSE "EACCES"
  /\ pcw' = "drop"
  /\ UNCHANGED <<env, HIJACK, MASTERFD, RELAYFD, NATIVE, kernel, thread>>

\* Faulty variant: master is not given up before the fork.
DropMasterForgotten ==
  /\ pcw = "drop"
  /\ pcw' = "fork"
  /\ UNCHANGED <<startup, NATIVE, kernel, thread>>

DropMaster ==
  /\ pcw = "drop"
  /\ master' = IF ~env.lease /\ master = WrapFile THEN NoFile ELSE master
  /\ pcw' = "fork"
  /\ UNCHANGED <<startup, NATIVE, node, dups, thread>>

Fork ==
  /\ pcw = "fork"
  /\ pcw' = "loop"
  /\ stat' = [stat EXCEPT ![Leader] = "user"]
  /\ ph' = [ph EXCEPT ![Leader] = Fresh]
  /\ UNCHANGED <<startup, NATIVE, kernel, call, reg8, ret, applied>>

-----------------------------------------------------------------------------
(* What the tracees do of their own accord. *)
Held == {f \in KFiles : node[f] # "closed"} \cup dups

Trap(t, c) ==
  /\ stat[t] = "user"
  /\ stat' = [stat EXCEPT ![t] = "entry"]
  /\ call' = [call EXCEPT ![t] = c]
  /\ reg8' = [reg8 EXCEPT ![t] = "run"]
  /\ ret' = [ret EXCEPT ![t] = "none"]
  /\ applied' = [applied EXCEPT ![t] = 0]
  /\ UNCHANGED <<startup, pcw, NATIVE, kernel, ph>>

CallOpen(t)   == \E path \in {"card", "render", "other"} : Trap(t, [op |-> "open", arg |-> path])
CallGetres(t) == \E f \in Held : Trap(t, [op |-> "getres", arg |-> f])
CallAtomic(t) == t \in Committers /\ \E f \in Held : Trap(t, [op |-> "atomic", arg |-> f])

(* kwin closes a description no call in progress is using. *)
Close(t) ==
  /\ stat[t] = "user"
  /\ \E f \in Held :
       /\ \A u \in Threads : stat[u] \in {"entry", "kernel"} => call[u].arg # f
       /\ node' = [g \in KFiles |-> IF g = f THEN "closed" ELSE node[g]]
       /\ dups' = dups \ {f}
       /\ master' = IF master = f /\ f \in KFiles THEN NoFile ELSE master
  /\ UNCHANGED <<startup, pcw, NATIVE, thread>>

Clone(t, u) ==
  /\ stat[t] = "user" /\ stat[u] = "none"
  /\ stat' = [stat EXCEPT ![u] = "user"]
  /\ UNCHANGED <<startup, pcw, NATIVE, kernel, call, reg8, ret, applied, ph>>

(* A thread dies: the tracer frees its slot of phases[]. *)
ThreadExit(t) ==
  /\ t # Leader /\ stat[t] \in {"user", "kernel"}
  /\ stat' = [stat EXCEPT ![t] = "dead"]
  /\ ph' = [ph EXCEPT ![t] = Free]
  /\ UNCHANGED <<startup, pcw, NATIVE, kernel, call, reg8, ret, applied>>

(* The forked child is gone: main() returns, EXITKILL takes the rest with   *)
(* it, and the kernel closes every description of the wrapper and of kwin.  *)
ChildGone ==
  /\ pcw = "loop" /\ stat[Leader] = "user"
  /\ pcw' = "done"
  /\ stat' = [t \in Threads |-> "dead"]
  /\ node' = [f \in KFiles |-> "closed"]
  /\ dups' = {}
  /\ master' = IF master = RivalFile THEN RivalFile ELSE NoFile
  /\ UNCHANGED <<startup, NATIVE, call, reg8, ret, applied, ph>>

-----------------------------------------------------------------------------
(* The kernel runs the call of a thread the tracer has resumed.  The thread *)
(* stops again at the exit if it was resumed with PTRACE_SYSCALL: always in *)
(* the classic mode, in the seccomp mode when its phase was armed.          *)
Armed(t) == ~env.secc \/ (ph[t].in /\ ph[t].p = 1)

Return(t, r) ==
  /\ ret' = [ret EXCEPT ![t] = r]
  /\ stat' = [stat EXCEPT ![t] = IF Armed(t) THEN "exit" ELSE "user"]
  /\ UNCHANGED <<startup, pcw, NATIVE, call, reg8, ph>>

Runs(t, op) == stat[t] = "kernel" /\ call[t].op = op /\ (reg8[t] = "run" \/ ~env.x8)

KernelOpen(t) ==
  /\ Runs(t, "open")
  /\ IF call[t].arg = "other"
       THEN UNCHANGED kernel
       ELSE \E f \in KFiles :
              /\ node[f] = "closed"
              /\ node' = [node EXCEPT ![f] = call[t].arg]
              /\ master' = IF call[t].arg = "card" THEN AfterCardOpen(f) ELSE master
              /\ UNCHANGED dups
  /\ Return(t, "OK")
  /\ UNCHANGED applied

(* Every description kwin may hold is in use: EMFILE, reported as EINVAL. *)
KernelOpenFails(t) ==
  /\ Runs(t, "open") /\ call[t].arg # "other"
  /\ \A f \in KFiles : node[f] # "closed"
  /\ Return(t, "EINVAL")
  /\ UNCHANGED <<kernel, applied>>

KernelDup(t) ==
  /\ stat[t] = "kernel" /\ reg8[t] = "dup" /\ env.x8
  /\ dups' = dups \cup {MASTERFD}
  /\ Return(t, "OK")
  /\ UNCHANGED <<master, node, applied>>

KernelSkip(t) ==
  /\ stat[t] = "kernel" /\ reg8[t] = "skip" /\ env.x8
  /\ Return(t, "ENOSYS")
  /\ UNCHANGED <<kernel, applied>>

KernelGetres(t) ==
  /\ Runs(t, "getres")
  /\ Return(t, "OK")
  /\ UNCHANGED <<kernel, applied>>

KernelAtomic(t) ==
  /\ Runs(t, "atomic")
  /\ \E r \in CommitResults(CanCommit(call[t].arg)) :
       /\ Return(t, r)
       /\ applied' = [applied EXCEPT ![t] = IF r = "OK" THEN @ + 1 ELSE @]
  /\ UNCHANGED kernel

Kernel(t) == \/ KernelOpen(t) \/ KernelOpenFails(t) \/ KernelDup(t)
             \/ KernelSkip(t) \/ KernelGetres(t) \/ KernelAtomic(t)

-----------------------------------------------------------------------------
(* The tracer at an entry stop: find or create the phase, handle_entry(),   *)
(* resume.  One action per branch of handle_entry.                          *)
Registered == {t \in Threads : ph[t].in}
HasSlot(t) == ph[t].in \/ Cardinality(Registered) < MaxPhases

AtEntry(t, op) == stat[t] = "entry" /\ HasSlot(t) /\ call[t].op = op

(* ph->sub, ph->hret and x8 as the handler leaves them. *)
Resume(t, sub, hret, x8) ==
  /\ ph' = [ph EXCEPT ![t] =
       [in |-> TRUE, p |-> IF env.secc THEN 1 ELSE 1 - ph[t].p, sub |-> sub, hret |-> hret]]
  /\ reg8' = [reg8 EXCEPT ![t] = x8]
  /\ stat' = [stat EXCEPT ![t] = "kernel"]
  /\ UNCHANGED <<startup, pcw, NATIVE, kernel, call, ret>>

\* Faulty variant: opens are rewritten whether or not the claim and the probe ask for it.
HijackAlways(t) == call[t].arg \in {"card", "render"}

Hijackable(t) == HIJACK /\ NATIVE = "relay" /\ call[t].arg \in {"card", "render"}

EntryOpenHijack(t) ==
  /\ AtEntry(t, "open") /\ Hijackable(t)
  /\ Resume(t, 3, ph[t].hret, "dup")
  /\ UNCHANGED applied

EntryOpenReal(t) ==
  /\ AtEntry(t, "open") /\ ~Hijackable(t)
  /\ Resume(t, 0, ph[t].hret, "run")
  /\ UNCHANGED applied

\* Faulty variant: GETRESOURCES is marked only while relaying.
EntryGetresRelayOnly(t) ==
  /\ AtEntry(t, "getres")
  /\ Resume(t, IF HIJACK /\ NATIVE = "relay" THEN 5 ELSE 0, ph[t].hret, "run")
  /\ UNCHANGED applied

EntryGetres(t) ==
  /\ AtEntry(t, "getres")
  /\ Resume(t, IF HIJACK THEN 5 ELSE 0, ph[t].hret, "run")
  /\ UNCHANGED applied

(* NATIVE == -1: let kwin's raw commit run to learn whether its fd is master. *)
EntryProbe(t) ==
  /\ AtEntry(t, "atomic") /\ NATIVE = "probe" /\ MASTERFD # NoFile
  /\ Resume(t, 6, "none", "run")
  /\ UNCHANGED applied

(* NATIVE == 1, or no master to relay on: kwin executes the commit itself. *)
EntryPassthrough(t) ==
  /\ AtEntry(t, "atomic")
  /\ NATIVE = "native" \/ MASTERFD = NoFile
  /\ Resume(t, 2, "none", "run")
  /\ UNCHANGED applied

RelayTarget == IF RELAYFD # NoFile THEN RELAYFD ELSE WrapFile
(* -EINVAL also stands for a commit build_local_atomic could not read. *)
RelayResults(may) == CommitResults(may) \cup {"EINVAL"}

(* NATIVE == 0: execute the commit here and skip kwin's own ioctl. *)
EntryRelay(t) ==
  /\ AtEntry(t, "atomic") /\ NATIVE = "relay" /\ MASTERFD # NoFile
  /\ \E rr \in RelayResults(CanCommit(RelayTarget)) :
       /\ Resume(t, 4, rr, "skip")
       /\ applied' = [applied EXCEPT ![t] = IF rr = "OK" THEN @ + 1 ELSE @]

\* Faulty variant: a thread without a slot is not resumed.
EntryUnmanagedLeft(t) ==
  /\ stat[t] = "entry" /\ ~HasSlot(t)
  /\ UNCHANGED vars

(* phases[] is full: the thread is resumed without any handling. *)
EntryUnmanaged(t) ==
  /\ stat[t] = "entry" /\ ~HasSlot(t)
  /\ stat' = [stat EXCEPT ![t] = "kernel"]
  /\ UNCHANGED <<startup, pcw, NATIVE, kernel, call, reg8, ret, applied, ph>>

-----------------------------------------------------------------------------
(* The tracer at an exit stop. *)
AtExit(t, subs) == stat[t] = "exit" /\ HasSlot(t) /\ ph[t].sub \in subs

Release(t, r) ==
  /\ ph' = [ph EXCEPT ![t] =
       [in |-> TRUE, p |-> IF env.secc THEN 0 ELSE 1 - ph[t].p, sub |-> 0, hret |-> ph[t].hret]]
  /\ ret' = [ret EXCEPT ![t] = r]
  /\ stat' = [stat EXCEPT ![t] = "user"]
  /\ UNCHANGED <<startup, pcw, node, dups, call, reg8>>

\* Faulty variant: SET_MASTER is tried before the result of the probe is looked at.
ExitProbeNativeClaims(t) ==
  /\ AtExit(t, {6}) /\ ret[t] # "EACCES"
  /\ NATIVE' = "native"
  /\ master' = IF SetMasterOK(WrapFile) THEN WrapFile ELSE master
  /\ Release(t, ret[t])
  /\ UNCHANGED applied

(* Anything but EACCES shows that kwin's file is master. *)
ExitProbeNative(t) ==
  /\ AtExit(t, {6}) /\ ret[t] # "EACCES"
  /\ NATIVE' = "native"
  /\ Release(t, ret[t])
  /\ UNCHANGED <<master, applied>>

\* Faulty variant: the result of the relay is not written back.
ExitProbeRelaySilent(t) ==
  /\ AtExit(t, {6}) /\ ret[t] = "EACCES"
  /\ NATIVE' = "relay"
  /\ master' = IF SetMasterOK(WrapFile) THEN WrapFile ELSE master
  /\ \E rr \in RelayResults(SetMasterOK(WrapFile)) :
       /\ Release(t, ret[t])
       /\ applied' = [applied EXCEPT ![t] = IF rr = "OK" THEN @ + 1 ELSE @]

(* EACCES: take master back if possible (the result is only logged), execute *)
(* the commit here and overwrite the result.                                 *)
ExitProbeRelay(t) ==
  /\ AtExit(t, {6}) /\ ret[t] = "EACCES"
  /\ NATIVE' = "relay"
  /\ master' = IF SetMasterOK(WrapFile) THEN WrapFile ELSE master
  /\ \E rr \in RelayResults(SetMasterOK(WrapFile)) :
       /\ Release(t, rr)
       /\ applied' = [applied EXCEPT ![t] = IF rr = "OK" THEN @ + 1 ELSE @]

(* filter_getres() rewrites a successful answer, unless the connectors      *)
(* cannot be listed, none or all of them are phantoms, or kwin's memory     *)
(* cannot be read or written: then kwin sees what the kernel wrote.         *)
ExitGetres(t) ==
  /\ AtExit(t, {5})
  /\ \E r \in IF ret[t] = "OK" THEN {"FILTERED", "RAW"} ELSE {ret[t]} : Release(t, r)
  /\ UNCHANGED <<NATIVE, master, applied>>

\* Faulty variants: the skipped call's own result is kept; master is dropped after a relay.
ExitRelayKeepsOwn(t) ==
  /\ AtExit(t, {4})
  /\ Release(t, ret[t])
  /\ UNCHANGED <<NATIVE, master, applied>>

ExitRelayDrops(t) ==
  /\ AtExit(t, {4})
  /\ master' = IF master = WrapFile THEN NoFile ELSE master
  /\ Release(t, ph[t].hret)
  /\ UNCHANGED <<NATIVE, applied>>

ExitRelay(t) ==
  /\ AtExit(t, {4})
  /\ Release(t, ph[t].hret)
  /\ UNCHANGED <<NATIVE, master, applied>>

ExitPlain(t) ==
  /\ AtExit(t, {0, 2, 3})
  /\ Release(t, ret[t])
  /\ UNCHANGED <<NATIVE, master, applied>>

ExitUnmanaged(t) ==
  /\ stat[t] = "exit" /\ ~HasSlot(t)
  /\ stat' = [stat EXCEPT ![t] = "user"]
  /\ UNCHANGED <<startup, pcw, NATIVE, kernel, call, reg8, ret, applied, ph>>

(* A ptrace event (clone, exec) of a running thread registers it. *)
EventStop(t) ==
  /\ stat[t] = "user" /\ ~ph[t].in /\ HasSlot(t)
  /\ ph' = [ph EXCEPT ![t] = Fresh]
  /\ UNCHANGED <<startup, pcw, NATIVE, kernel, stat, call, reg8, ret, applied>>

-----------------------------------------------------------------------------
Startup == \/ OpenCard \/ OpenCardFails \/ ClaimMaster \/ ClaimFails \/ CreateLease
           \/ WriteBrightness \/ DropMaster \/ Fork

User(t) == \/ CallOpen(t) \/ CallGetres(t) \/ CallAtomic(t) \/ Close(t)
           \/ ThreadExit(t) \/ \E u \in Threads : Clone(t, u)

Entry(t) == \/ EntryOpenHijack(t) \/ EntryOpenReal(t) \/ EntryGetres(t) \/ EntryProbe(t)
            \/ EntryPassthrough(t) \/ EntryRelay(t) \/ EntryUnmanaged(t)

Exit(t) == \/ ExitProbeNative(t) \/ ExitProbeRelay(t) \/ ExitGetres(t)
           \/ ExitRelay(t) \/ ExitPlain(t) \/ ExitUnmanaged(t)

Tracer(t) == Entry(t) \/ Exit(t) \/ EventStop(t)

Next == \/ Startup \/ RivalTakes \/ RivalReleases \/ ChildGone
        \/ \E t \in Threads : User(t) \/ Kernel(t) \/ Tracer(t)

Spec == Init /\ [][Next]_vars

(* The tracer keeps serving every stop waitpid() reports, and a system call *)
(* the kernel was asked to run ends.  kwin owes nobody a step.              *)
Fairness == \A t \in Threads : WF_vars(Entry(t) \/ Exit(t)) /\ WF_vars(Kernel(t))

FairSpec == Spec /\ Fairness
-----------------------------------------------------------------------------
(* The inductive invariant behind the theorems of KwinWrapProofs.           *)
Atomic(t) == call[t].op = "atomic"

BootInv == pcw \notin {"loop", "done"} => NATIVE = "probe" /\ \A t \in Threads : stat[t] = "none"

(* Whoever is about to rely on HIJACK_FD finds it open. *)
FdInv == /\ NATIVE = "relay" => MASTERFD # NoFile
         /\ \A t \in Threads : reg8[t] = "dup" \/ ph[t].sub = 6 => MASTERFD # NoFile

(* What a phase says agrees with what was done to the call it belongs to. *)
PhaseInv(t) ==
  /\ ~ph[t].in => ph[t].sub = 0
  /\ stat[t] = "none" => call[t] = NoCall
  /\ stat[t] \in {"none", "user", "entry"} => ph[t].sub = 0
  /\ stat[t] = "entry" => reg8[t] = "run" /\ applied[t] = 0
  /\ stat[t] \in {"kernel", "exit"} =>
       /\ reg8[t] = "skip" <=> ph[t].sub = 4
       /\ reg8[t] = "dup" <=> ph[t].sub = 3
       /\ ph[t].sub \in {2, 4, 6} => Atomic(t)
       /\ ph[t].sub = 5 => call[t].op = "getres"
       /\ ph[t].sub = 3 => call[t].op = "open"
  /\ stat[t] = "kernel" /\ ph[t].sub # 0 => Armed(t)

(* The account of a commit: what is in "applied" and what will be answered. *)
Ledger(t) ==
  LET answer == IF stat[t] # "user" /\ ph[t].sub = 4 THEN ph[t].hret
                ELSE IF stat[t] = "kernel" THEN "none" ELSE ret[t]
  IN  Atomic(t) /\ stat[t] \in {"kernel", "exit", "user"} =>
        applied[t] = IF answer = "OK" THEN 1 ELSE 0

IInv == /\ TypeOK /\ BootInv /\ FdInv
        /\ \A t \in Threads : PhaseInv(t) /\ (env.x8 => Ledger(t))

-----------------------------------------------------------------------------
(* Properties. *)

(* A thread that is told its commit succeeded had it executed exactly once, *)
(* by itself or by the relay, and one that is told it failed had it not     *)
(* executed at all: probing, re-executing after a refused probe, skipping   *)
(* the original call and overwriting its result lose and double nothing.    *)
(* On a kernel that ignores x8 this cannot be promised.                     *)
HonestResult ==
  env.x8 => \A t \in Threads :
    stat[t] = "user" /\ call[t].op = "atomic" =>
      applied[t] = IF ret[t] = "OK" THEN 1 ELSE 0

(* Once kwin commits natively the wrapper does not become master: a probe   *)
(* that succeeded is never followed by a re-SETMASTER that shuts kwin out.  *)
(* There is one way it comes to that, and no other: two threads have a      *)
(* probing commit in flight, one is refused and the wrapper takes master to *)
(* relay, and the other, which was executed before, then answers "native".  *)
LockedOut == NATIVE = "native" /\ master = WrapFile
Overtaken == NATIVE = "relay" /\ \E t \in Threads : AtExit(t, {6}) /\ ret[t] # "EACCES"

NativeNotLockedOut == [][~LockedOut /\ LockedOut' => Overtaken]_vars

(* From the fork until the probe has an answer, a wrapper that has claimed  *)
(* the panel leaves master to whoever opens the card first, unless it was   *)
(* asked to lease.                                                          *)
MasterHandedOver ==
  pcw = "loop" /\ HIJACK /\ ~env.lease /\ NATIVE = "probe" => master # WrapFile

(* While relaying with master in hand, the wrapper never loses it: neither  *)
(* kwin's opens and closes nor the composer can take it before the child    *)
(* is gone.                                                                 *)
RelayKeepsMaster ==
  [][NATIVE = "relay" /\ master = WrapFile => master' = WrapFile \/ pcw' = "done"]_vars

(* With a phase slot for every thread, no successful GETRESOURCES answer    *)
(* gets round filter_getres(), whichever threads ask and in whatever order, *)
(* before and after the probe.  (What filter_getres() gives up on, kwin     *)
(* sees as it is.)                                                          *)
NeverPastFilter ==
  HIJACK /\ Cardinality(Threads) <= MaxPhases =>
    \A t \in Threads : ~(stat[t] = "user" /\ call[t].op = "getres" /\ ret[t] = "OK")

(* Every trapped call comes back, also for threads phases[] has no room     *)
(* for: the tracer leaves no thread in a stop.                              *)
CallsReturn ==
  \A t \in Threads :
    stat[t] \in {"entry", "kernel", "exit"} ~> stat[t] \in {"user", "dead"}

(* KwinWrap implements CommitService wherever the kernel honours x8: probe, *)
(* native commit and relay are ways of giving the same service.             *)
Service == INSTANCE CommitService WITH
  waiting <- {t \in Threads : Atomic(t) /\ stat[t] \in {"entry", "kernel", "exit"}},
  effects <- [t \in Threads |-> IF Atomic(t) THEN applied[t] ELSE 0],
  told    <- [t \in Threads |-> IF ~Atomic(t) \/ stat[t] # "user" THEN "none"
                                ELSE IF ret[t] = "OK" THEN "ok" ELSE "failed"]
ImplementsService == Service!CSpec

(* kwinwrap.c:207-208: the dup is "a fresh, real fd that shares the master  *)
(* file_priv".                                                              *)
DupIsMaster == dups # {} => master = WrapFile

(* kwinwrap.c:1310-1312: the panel is handed to kwin natively, the relay is *)
(* only a fallback: kwin that was found to be master is never shut out.     *)
NeverLockedOut == ~LockedOut

(* docs/tools.md:12: the wrapper takes master, cleans up, does DROP_MASTER  *)
(* and only then execs its target.                                          *)
DroppedBeforeExec == pcw = "loop" /\ NATIVE = "probe" => master # WrapFile
=============================================================================
