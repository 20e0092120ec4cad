---------------------------- MODULE DrmTakeover ----------------------------
(***************************************************************************)
(* drm-takeover.sh, its fuse, scripts/drm-stop.sh and                      *)
(* scripts/kwin-restart.sh: taking the display away from Android for one   *)
(* experiment or (PERSIST=1) until further notice, and giving it back.     *)
(* The scripts share the state of the device and one file, takeover.ok;    *)
(* any of them may be running when another one is killed.                  *)
(*                                                                         *)
(* The sleeps are not modelled: a fuse may wake, and a watchdog strike, at *)
(* any time it may at all.  "display" stands for surfaceflinger and the    *)
(* composer, which every script starts and stops with one command.  The    *)
(* commands sent through adb are taken to succeed.                         *)
(***************************************************************************)
EXTENDS Naturals

CONSTANTS
  Modes,      \* the settings of PERSIST and MODE=kwin a run is started with
  Signals,    \* the signals the script may be sent: a subset of {"TERM", "KILL"}
  MaxRuns     \* how often drm-takeover.sh is started

ASSUME ModesAssumption   == Modes \subseteq [persist : BOOLEAN, kwin : BOOLEAN]
ASSUME SignalsAssumption == Signals \subseteq {"TERM", "KILL"}
ASSUME RunsAssumption    == MaxRuns \in Nat \ {0}

VARIABLES
  mode,       \* the settings of the current run
  run,        \* the number of the current run, 0 before the first
  pc,         \* where drm-takeover.sh is
  fuse,       \* the fuse each run has left behind
  stop,       \* where drm-stop.sh is
  restart,    \* where kwin-restart.sh is
  restarted,  \* has it started kwin since drm-stop.sh last killed it?
  ok,         \* does takeover.ok exist?
  kwin,       \* which kwin (under kwinwrap) is alive: the run's own, another one
  helpers,    \* are keepbright.sh and dmesg-harvester.sh running?
  display,    \* is Android's display stack running?
  frozen,     \* the run that stopped system_server with SIGSTOP, 0 if it is running
  defaults,   \* are the settings of the watchdogs Android's own?
  maxTimeout, \* has screen_off_timeout been set to its maximum?
  suspend,    \* is system_suspend running?
  wakelock    \* is the wake lock held?

settings == <<defaults, maxTimeout>>
power    == <<suspend, wakelock>>
android  == <<display, frozen, settings, power>>
control  == <<mode, run, pc, fuse, stop, restart, restarted>>
vars     == <<control, ok, kwin, helpers, android>>

Runs  == 1..MaxRuns
Ended == {"idle", "ended", "killed"}

Labels     == Ended \cup {"disarm", "stop", "rm", "claim", "launch", "look", "awake", "freeze",
                          "persist", "work", "quit", "finish", "exit"}
FuseStates == {"none", "asleep", "restoring", "gone"}
StopLabels == {"idle", "kill", "thaw", "display", "defaults", "resume", "rm", "done"}

(* Besides the types: every run that was started has thrown its fuse.       *)
TypeOK ==
  /\ mode \in Modes /\ run \in 0..MaxRuns
  /\ pc \in Labels /\ stop \in StopLabels
  /\ fuse \in [Runs -> FuseStates] /\ \A r \in Runs : fuse[r] = "none" <=> r > run
  /\ restart \in {"idle", "killed"} /\ restarted \in BOOLEAN
  /\ ok \in BOOLEAN /\ kwin \subseteq {"own", "other"} /\ helpers \in BOOLEAN
  /\ display \in BOOLEAN /\ frozen \in 0..run
  /\ defaults \in BOOLEAN /\ maxTimeout \in BOOLEAN
  /\ suspend \in BOOLEAN /\ wakelock \in BOOLEAN

Init ==
  /\ mode \in Modes /\ run = 0 /\ pc = "idle" /\ stop = "idle"
  /\ fuse = [r \in Runs |-> "none"]
  /\ restart = "idle" /\ restarted = FALSE
  /\ ok \in BOOLEAN      \* a finished run leaves takeover.ok behind
  /\ kwin = {} /\ helpers = FALSE
  /\ display = TRUE /\ frozen = 0 /\ defaults = TRUE /\ maxTimeout = FALSE
  /\ suspend = TRUE /\ wakelock = FALSE

-----------------------------------------------------------------------------
(* drm-takeover.sh.  Its user starts one at a time, and none while          *)
(* drm-stop.sh is at work.                                                  *)
At(l)   == pc = l
Go(l)   == pc' = l /\ UNCHANGED <<mode, run, fuse, stop, restart, restarted>>

Startable == pc \in Ended /\ run < MaxRuns /\ stop \in {"idle", "done"}
Started   ==
  /\ mode' \in Modes
  /\ run' = run + 1
  /\ pc' = IF mode'.persist THEN "disarm" ELSE "stop"
  /\ stop' = "idle"
  /\ kwin' = IF kwin = {} THEN {} ELSE {"other"}
  /\ UNCHANGED <<restart, restarted, ok, helpers, android>>

\* Faulty variant: the fuse is thrown together with setting the trap.
StartPersistFuseless ==
  /\ Startable /\ Started
  /\ fuse' = IF mode'.persist THEN fuse ELSE [fuse EXCEPT ![run + 1] = "asleep"]

(* The trap is set and the fuse thrown before Android is touched.  A kwin   *)
(* that an earlier run or kwin-restart.sh left behind is not looked for.    *)
Start ==
  /\ Startable /\ Started
  /\ fuse' = [fuse EXCEPT ![run + 1] = "asleep"]

(* PERSIST: the settings of the watchdogs, which HyperOS ignores, see       *)
(* WatchdogStrikes.                                                         *)
Disarm ==
  /\ At("disarm") /\ Go("stop")
  /\ defaults' = FALSE
  /\ UNCHANGED <<ok, kwin, helpers, display, frozen, maxTimeout, power>>

StopAndroid ==
  /\ At("stop") /\ Go("rm")
  /\ display' = FALSE
  /\ UNCHANGED <<ok, kwin, helpers, frozen, settings, power>>

RemoveOk ==
  /\ At("rm") /\ Go("claim")
  /\ ok' = FALSE
  /\ UNCHANGED <<kwin, helpers, android>>

(* The python loop waits for 15 s for the master to be free.  A kwin that   *)
(* is alive may hold it, or have found the composer holding it.             *)
Claim ==
  /\ At("claim")
  /\ \/ ~display /\ Go("launch")
     \/ Go("exit")
  /\ UNCHANGED <<ok, kwin, helpers, android>>

\* Faulty variant: touchdraw replaces the shell, and its trap with it.
LaunchExecs ==
  /\ At("launch")
  /\ IF mode.kwin THEN Go("look") /\ kwin' = kwin \cup {"own"}
                  ELSE Go("ended") /\ UNCHANGED kwin
  /\ UNCHANGED <<ok, helpers, android>>

Launch ==
  /\ At("launch")
  /\ IF mode.kwin THEN Go("look") /\ kwin' = kwin \cup {"own"}
                  ELSE Go("finish") /\ UNCHANGED kwin
  /\ UNCHANGED <<ok, helpers, android>>

Look ==
  /\ At("look")
  /\ Go(IF "own" \notin kwin THEN "quit" ELSE IF mode.persist THEN "awake" ELSE "work")
  /\ UNCHANGED <<ok, kwin, helpers, android>>

(* PERSIST: no suspend, a wake lock, and the screen never to time out.      *)
KeepAwake ==
  /\ At("awake") /\ Go("freeze")
  /\ suspend' = FALSE /\ wakelock' = TRUE /\ maxTimeout' = TRUE
  /\ UNCHANGED <<ok, kwin, helpers, display, frozen, defaults>>

\* Faulty variant: the settings alone are trusted to hold the watchdogs off.
FreezeTrustsSettings ==
  /\ At("freeze") /\ Go("persist")
  /\ UNCHANGED <<ok, kwin, helpers, android>>

(* kill -STOP system_server: the one thing that does hold them off.         *)
Freeze ==
  /\ At("freeze") /\ Go("persist")
  /\ frozen' = run
  /\ UNCHANGED <<ok, kwin, helpers, display, settings, power>>

Persist ==
  /\ At("persist") /\ Go("exit")
  /\ ok' = TRUE /\ helpers' = TRUE
  /\ UNCHANGED <<kwin, android>>

Work ==
  /\ At("work") /\ Go("quit")
  /\ UNCHANGED <<ok, kwin, helpers, android>>

Quit ==
  /\ At("quit") /\ Go("finish")
  /\ kwin' = {}
  /\ UNCHANGED <<ok, helpers, android>>

Finish ==
  /\ At("finish") /\ Go("exit")
  /\ ok' = TRUE
  /\ UNCHANGED <<kwin, helpers, android>>

(* trap restore EXIT, which PERSIST=1 does without.                         *)
Exit ==
  /\ At("exit") /\ Go("ended")
  /\ display' = (display \/ ~mode.persist)
  /\ UNCHANGED <<ok, kwin, helpers, frozen, settings, power>>

(* bash runs the EXIT trap on TERM, but not a second time if TERM meets the *)
(* trap at work; and nothing on KILL.                                       *)
Signalled ==
  /\ pc \notin Ended
  /\ \/ "TERM" \in Signals /\ Go(IF At("exit") THEN "killed" ELSE "exit")
     \/ "KILL" \in Signals /\ Go("killed")
  /\ UNCHANGED <<ok, kwin, helpers, android>>

-----------------------------------------------------------------------------
(* The fuse of run r: after 150 s it looks for takeover.ok and for its own  *)
(* run's process, and restores the display when there is neither.           *)
Alive(r) == r = run /\ pc \notin Ended

\* Faulty variant: the fuse does not look for takeover.ok.
FuseWakesAnyway(r) ==
  /\ fuse[r] = "asleep"
  /\ fuse' = [fuse EXCEPT ![r] = IF ~Alive(r) THEN "restoring" ELSE "gone"]
  /\ UNCHANGED <<mode, run, pc, stop, restart, restarted, ok, kwin, helpers, android>>

FuseWakes(r) ==
  /\ fuse[r] = "asleep"
  /\ fuse' = [fuse EXCEPT ![r] = IF ~ok /\ ~Alive(r) THEN "restoring" ELSE "gone"]
  /\ UNCHANGED <<mode, run, pc, stop, restart, restarted, ok, kwin, helpers, android>>

\* Faulty variant: the fuse only stops the boot animation.
FuseRestoresNothing(r) ==
  /\ fuse[r] = "restoring"
  /\ fuse' = [fuse EXCEPT ![r] = "gone"]
  /\ UNCHANGED <<mode, run, pc, stop, restart, restarted, ok, kwin, helpers, android>>

FuseRestores(r) ==
  /\ fuse[r] = "restoring"
  /\ fuse' = [fuse EXCEPT ![r] = "gone"]
  /\ display' = TRUE
  /\ UNCHANGED <<mode, run, pc, stop, restart, restarted, ok, kwin, helpers, frozen>>
  /\ UNCHANGED <<settings, power>>

-----------------------------------------------------------------------------
(* scripts/drm-stop.sh, run by the user once a takeover is over, and again   *)
(* if he likes.                                                             *)
Stop(from, to) == stop = from /\ stop' = to /\ UNCHANGED <<mode, run, pc, fuse, restart>>

StopBegin ==
  /\ pc \in Ended /\ (Stop("idle", "kill") \/ Stop("done", "kill"))
  /\ UNCHANGED <<restarted, ok, kwin, helpers, android>>

StopKill ==
  /\ Stop("kill", "thaw")
  /\ kwin' = {} /\ helpers' = FALSE /\ restarted' = FALSE
  /\ UNCHANGED <<ok, android>>

\* Faulty variant: the display is started while system_server is still frozen.
StopThawLate ==
  /\ Stop("thaw", "display")
  /\ display' = TRUE
  /\ UNCHANGED <<restarted, ok, kwin, helpers, frozen, settings, power>>

StopThaw ==
  /\ Stop("thaw", "display")
  /\ frozen' = 0
  /\ UNCHANGED <<restarted, ok, kwin, helpers, display, settings, power>>

StopDisplay ==
  /\ Stop("display", "defaults")
  /\ display' = TRUE
  /\ UNCHANGED <<restarted, ok, kwin, helpers, frozen, settings, power>>

(* The settings of :82; not screen_off_timeout.                             *)
StopDefaults ==
  /\ Stop("defaults", "resume")
  /\ defaults' = TRUE
  /\ UNCHANGED <<restarted, ok, kwin, helpers, display, frozen, maxTimeout, power>>

\* Faulty variant: the wake lock is kept.
StopResumeLocked ==
  /\ Stop("resume", "rm")
  /\ suspend' = TRUE
  /\ UNCHANGED <<restarted, ok, kwin, helpers, display, frozen, settings, wakelock>>

StopResume ==
  /\ Stop("resume", "rm")
  /\ suspend' = TRUE /\ wakelock' = FALSE
  /\ UNCHANGED <<restarted, ok, kwin, helpers, display, frozen, settings>>

StopRemoveOk ==
  /\ Stop("rm", "done")
  /\ ok' = FALSE
  /\ UNCHANGED <<restarted, kwin, helpers, android>>

-----------------------------------------------------------------------------
(* scripts/kwin-restart.sh: it kills whatever kwin there is, sleeps, and     *)
(* starts another one, whatever the other scripts are doing meanwhile.      *)
RestartKill ==
  /\ restart = "idle" /\ restart' = "killed"
  /\ kwin' = {}
  /\ UNCHANGED <<mode, run, pc, fuse, stop, restarted, ok, helpers, android>>

RestartStart ==
  /\ restart = "killed" /\ restart' = "idle"
  /\ kwin' = kwin \cup {"other"} /\ restarted' = TRUE
  /\ UNCHANGED <<mode, run, pc, fuse, stop, ok, helpers, android>>

-----------------------------------------------------------------------------
(* What else happens: kwin dies, and the helpers notice that takeover.ok is *)
(* gone.                                                                    *)
KwinDies ==
  /\ \E k \in kwin : kwin' = kwin \ {k}
  /\ UNCHANGED <<control, ok, helpers, android>>

HelpersLeave ==
  /\ helpers /\ ~ok /\ helpers' = FALSE
  /\ UNCHANGED <<control, ok, kwin, android>>

(* The watchdogs of system_server kill it when its display stack has been   *)
(* gone for about two minutes, whatever the settings are; the kernel's      *)
(* hangdetect panics, or the user has to force a reboot                     *)
(* (drm-takeover.sh:74-82, 235-240).  Files and settings outlive it.        *)
WatchdogMayStrike == ~display /\ frozen = 0

WatchdogStrikes ==
  /\ WatchdogMayStrike
  /\ pc' = "killed" /\ stop' = "idle" /\ restart' = "idle"
  /\ fuse' = [r \in Runs |-> IF r <= run THEN "gone" ELSE "none"]
  /\ kwin' = {} /\ helpers' = FALSE
  /\ display' = TRUE /\ suspend' = TRUE /\ wakelock' = FALSE
  /\ UNCHANGED <<mode, run, restarted, ok, frozen, settings>>

-----------------------------------------------------------------------------
Takeover == \/ Start \/ Disarm \/ StopAndroid \/ RemoveOk \/ Claim \/ Launch \/ Look
            \/ KeepAwake \/ Freeze \/ Persist \/ Work \/ Quit \/ Finish \/ Exit
Fuse     == \E r \in Runs : FuseWakes(r) \/ FuseRestores(r)
DrmStop  == \/ StopBegin \/ StopKill \/ StopThaw \/ StopDisplay
            \/ StopDefaults \/ StopResume \/ StopRemoveOk
Restart  == RestartKill \/ RestartStart

Next == \/ Takeover \/ KwinDies \/ Signalled \/ Fuse \/ DrmStop
        \/ HelpersLeave \/ Restart \/ WatchdogStrikes

(* A script goes on until it ends or is killed, a fuse wakes after its      *)
(* sleep.  Nobody is bound to start a script, no watchdog to strike.        *)
Fairness == /\ WF_vars(Takeover /\ pc \notin Ended)
            /\ WF_vars(Fuse)
            /\ WF_vars(DrmStop /\ stop \notin {"idle", "done"})
            /\ WF_vars(RestartStart)
            /\ WF_vars(HelpersLeave)

Spec == Init /\ [][Next]_vars
FairSpec == Spec /\ Fairness
-----------------------------------------------------------------------------
(* The inductive invariant behind the theorems of DrmTakeoverProofs.  What  *)
(* drm-stop.sh has undone stays undone while it is at work, as no takeover  *)
(* is running then.                                                         *)
StopInv ==
  /\ stop # "idle" => pc \in Ended
  /\ stop \in {"thaw", "display", "defaults", "resume", "rm", "done"} =>
       ~helpers /\ (kwin = {} \/ restarted)
  /\ stop \in {"display", "defaults", "resume", "rm", "done"} => frozen = 0
  /\ stop \in {"defaults", "resume", "rm", "done"} => display
  /\ stop \in {"resume", "rm", "done"} => defaults
  /\ stop \in {"rm", "done"} => suspend /\ ~wakelock
  /\ stop = "done" => ~ok

(* system_server is frozen before the helpers start, and only by a run that *)
(* is to persist; a round that has ended has started the display again.     *)
FreezeInv ==
  /\ pc \in {"disarm", "awake", "freeze", "persist"} => mode.persist
  /\ pc = "persist" \/ helpers => frozen # 0
  /\ frozen # 0 /\ frozen = run => mode.persist
  /\ run = 0 => pc = "idle"
  /\ pc = "idle" => display
  /\ pc = "ended" /\ ~mode.persist => display

(* A fuse that is about to restore the display has found its run gone and   *)
(* no takeover.ok, and only a run that is still going touches the file.     *)
FuseInv == \A r \in Runs : fuse[r] = "restoring" /\ run = r => pc \in Ended /\ ~ok

-----------------------------------------------------------------------------
(* drm-takeover.sh:3: a round gives the display back, whether its kwin or   *)
(* touchdraw succeeds, fails, dies or is never started, and also when it is *)
(* terminated; only SIGKILL, or TERM while the trap is at work, leaves that *)
(* to its fuse.                                                             *)
RoundGivesBack ==
  \A r \in Runs :
    run = r /\ pc \notin Ended /\ ~mode.persist /\ ~display
      ~> display \/ pc = "killed" \/ run # r

(* A run that is gone, with Android's display stopped and takeover.ok       *)
(* absent, is made good for by its fuse, unless that had woken before or    *)
(* another run is started.                                                  *)
FuseRescues ==
  \A r \in Runs :
    run = r /\ pc \in {"ended", "killed"} /\ ~ok /\ fuse[r] = "asleep" ~> display \/ run # r

(* The fuse of a takeover that is to persist never takes the panel from it. *)
(* (The fuse of an earlier run may: it wakes before takeover.ok is touched.) *)
PersistUndisturbed ==
  [][\A r \in Runs : FuseRestores(r) => ~(run = r /\ pc = "ended" /\ ok)]_vars

(* The watchdogs may strike only while a takeover is under way, between     *)
(* thawing system_server and starting the display in drm-stop.sh, and, once *)
(* no script is at work on it, after a run that was killed or a persistent  *)
(* one that came to nothing: never under a takeover that persists, with its *)
(* helpers running (drm-takeover.sh:235-241).                               *)
WatchdogHeld ==
  WatchdogMayStrike =>
    \/ pc \notin Ended
    \/ stop = "display"
    \/ /\ stop \in {"idle", "kill", "thaw"}
       /\ pc = "killed" \/ (mode.persist /\ ~helpers)

(* drm-stop.sh:24-25: system_server is thawed before the display stack it   *)
(* serves is started, or its clients hang.  drm-stop.sh always does; and    *)
(* nothing else starts the display under a frozen system_server but the     *)
(* trap of a round that was started over a takeover nobody had stopped, the *)
(* fuse of a run cut short before it touched takeover.ok, and the fuse of   *)
(* an earlier run.                                                          *)
ThawedBeforeDisplay ==
  [][display' /\ ~display /\ frozen' # 0 =>
       \/ Exit /\ frozen < run
       \/ \E r \in Runs : FuseRestores(r) /\ (r < run \/ ~ok)]_vars

(* drm-stop.sh undoes what a takeover did to the device, wherever it had    *)
(* got to: all but screen_off_timeout (see TimeoutRestored), and a kwin     *)
(* that kwin-restart.sh has started since is left alone.                    *)
StopUndoesAll ==
  stop = "done" => /\ display /\ frozen = 0 /\ defaults /\ suspend /\ ~wakelock
                   /\ (kwin = {} \/ restarted) /\ ~helpers /\ ~ok

-----------------------------------------------------------------------------
(* drm-takeover.sh:3: "whether it succeeds or fails, restore Android's      *)
(* display"; README.md:93: a single or persistent takeover "with automatic  *)
(* rollback".  Here: a run that ended without a takeover (system_server is  *)
(* not frozen, kwin is dead) left the display running, if it also touched   *)
(* the takeover.ok that makes its fuse do nothing.                          *)
RestoredAfterFailure ==
  pc = "ended" /\ kwin = {} /\ frozen = 0 /\ ok /\ stop = "idle" /\ restart = "idle"
    => display

(* drm-takeover.sh:3: Android's display is restored whether the run succeeds *)
(* or fails: a round that has ended holds neither master nor the panel, as   *)
(* the composer could not show anything then.                                *)
PanelFreeAtEnd == pc = "ended" /\ ~mode.persist /\ restart = "idle" => "own" \notin kwin

(* drm-takeover.sh:3: Android's display is stopped, then the binary runs,   *)
(* then the display is restored: not while the binary runs.                 *)
StoppedWhileRunning == pc \in {"look", "work"} => ~display

(* drm-stop.sh:2: it restores Android's display: the screen times out again *)
(* as the user had set it.                                                  *)
TimeoutRestored == stop = "done" => ~maxTimeout

(* drm-stop.sh:24-25: the display is never started under a frozen           *)
(* system_server.                                                           *)
NeverUnderFrozen == [][display' /\ ~display => frozen' = 0]_vars
=============================================================================
