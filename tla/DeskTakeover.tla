---------------------------- MODULE DeskTakeover ----------------------------
(***************************************************************************)
(* desk-takeover.sh, which stops Android, starts kwin and a Plasma desktop *)
(* on the panel and takes WiFi over, with its rollback; and                *)
(* scripts/desk-stop.sh, which gives all of it back.  Both ignore HUP, INT *)
(* and TERM, neither waits for the other, and there is no fuse.            *)
(*                                                                         *)
(* The framework ("wanted" once `start` was run) has the display when its  *)
(* surfaceflinger runs; that needs the composer to be DRM master.          *)
(***************************************************************************)
EXTENDS Naturals

CONSTANTS
  StaticConfs,  \* may /root/desk-wifi.conf exist: a set of booleans
  MaxRuns,      \* how often desk-takeover.sh is started
  MaxRetries,   \* how often desk-stop.sh kills and starts again while it polls (4)
  None

ASSUME DeskAssumption == StaticConfs \subseteq BOOLEAN /\ MaxRuns \in Nat /\ MaxRetries \in Nat
ASSUME NoneAssumption == None \notin {"kwin", "composer", "gen", "static"}

VARIABLES
  run,        \* the number of the current takeover, 0 before the first
  pc,         \* where desk-takeover.sh is
  static,     \* does /root/desk-wifi.conf exist?
  gen,        \* was a configuration generated from Android's?
  stop,       \* where desk-stop.sh is
  begun,      \* how far the takeover was when desk-stop.sh began (history variable)
  retries,    \* of desk-stop.sh
  kwin, plasma, harvester, ok,   \* the desktop, dmesg-harvester.sh, takeover.ok
  wpa,        \* wpa_supplicant of the takeover: its configuration, or None
  dhcp,       \* does its dhcpcd run?
  suspend, lock, composer,       \* system_suspend, the wake lock, the composer
  wanted, sf, \* the framework was started; surfaceflinger runs
  master      \* the DRM master: "kwin", "composer" or None

desk    == <<kwin, plasma, harvester, ok>>
wifi    == <<wpa, dhcp>>
android == <<suspend, lock, composer, wanted, sf>>
script  == <<run, pc, static, gen>>
stopper == <<stop, begun, retries>>
vars    == <<script, stopper, desk, wifi, android, master>>

Over     == {"idle", "ended", "failed", "killed"}
Before   == {"conf", "suspend", "lock", "stop", "composer", "clear", "launch"}

Init ==
  /\ run = 0 /\ pc = "idle" /\ static \in StaticConfs /\ gen = FALSE
  /\ stop = "idle" /\ begun = "over" /\ retries = 0
  /\ kwin = FALSE /\ plasma = FALSE /\ harvester = FALSE /\ ok = FALSE
  /\ wpa = None /\ dhcp = FALSE
  /\ suspend = TRUE /\ lock = FALSE /\ composer = TRUE /\ wanted = TRUE /\ sf = TRUE
  /\ master = "composer"

-----------------------------------------------------------------------------
(* desk-takeover.sh *)
Go(from, to) == pc = from /\ pc' = to /\ UNCHANGED <<run, static, stopper>>
Step(from, to) == Go(from, to) /\ UNCHANGED gen

Start ==
  /\ pc \in Over /\ run < MaxRuns /\ stop \in {"idle", "done"}
  /\ run' = run + 1 /\ pc' = "conf" /\ stop' = "idle" /\ begun' = "over" /\ retries' = 0
  /\ UNCHANGED <<static, gen, desk, wifi, android, master>>

(* Android knows the network it is connected to, if it runs.  What an        *)
(* earlier run generated is removed.                                         *)
WifiConf == /\ Go("conf", "suspend") /\ gen' \in IF sf THEN BOOLEAN ELSE {FALSE}
            /\ UNCHANGED <<desk, wifi, android, master>>
Conf == IF gen THEN "gen" ELSE "static"

SuspendOff  == /\ Step("suspend", "lock") /\ suspend' = FALSE
               /\ UNCHANGED <<desk, wifi, lock, composer, wanted, sf, master>>
WakeLock    == /\ Step("lock", "stop") /\ lock' = TRUE
               /\ UNCHANGED <<desk, wifi, suspend, composer, wanted, sf, master>>
StopAndroid == /\ Step("stop", "composer") /\ wanted' = FALSE /\ sf' = FALSE
               /\ UNCHANGED <<desk, wifi, suspend, lock, composer, master>>

Without(m) == IF master = m THEN None ELSE master

StopComposer == /\ Step("composer", "clear") /\ composer' = FALSE /\ master' = Without("composer")
                /\ UNCHANGED <<desk, wifi, suspend, lock, wanted, sf>>

(* Processes are found by their command lines, wpa_supplicant by its         *)
(* configuration.                                                            *)
\* Faulty variant: the patterns miss kwin, as those of the first version did.
KillsDesktopButKwin == plasma' = FALSE /\ harvester' = FALSE /\ UNCHANGED <<kwin, master>>

KillsDesktop == kwin' = FALSE /\ plasma' = FALSE /\ harvester' = FALSE /\ master' = Without("kwin")
KillsWifi(c) == wpa' = (IF wpa = c THEN None ELSE wpa) /\ dhcp' = FALSE

KillLinuxStack == KillsDesktop /\ KillsWifi(Conf) /\ ok' = FALSE

Clear == Step("clear", "launch") /\ KillLinuxStack /\ UNCHANGED android

(* Whoever comes second is not master, and has nothing to show.              *)
Launch == /\ Step("launch", "look") /\ kwin' = TRUE
          /\ master' = IF master = None THEN "kwin" ELSE master
          /\ UNCHANGED <<plasma, harvester, ok, wifi, android>>

(* kwin is alive, and answers wayland-info. *)
Look == /\ \/ kwin /\ Step("look", "desktop")
           \/ Step("look", "rbkill")
        /\ UNCHANGED <<desk, wifi, android, master>>

Desktop == /\ Step("desktop", "touch") /\ plasma' = kwin
           /\ UNCHANGED <<kwin, harvester, ok, wifi, android, master>>
TouchOk == /\ Step("touch", "wifi") /\ ok' = TRUE
           /\ UNCHANGED <<kwin, plasma, harvester, wifi, android, master>>

Wifi == /\ \/ (gen \/ static) /\ Step("wifi", "assoc") /\ wpa' = Conf /\ dhcp' = FALSE
           \/ ~(gen \/ static) /\ Step("wifi", "harvest") /\ UNCHANGED wifi
        /\ UNCHANGED <<desk, android, master>>

(* Without an association the desktop is kept. *)
Assoc == /\ \/ Step("assoc", "dhcp") /\ UNCHANGED wpa
            \/ Step("assoc", "harvest") /\ wpa' = None
         /\ UNCHANGED <<dhcp, desk, android, master>>
Dhcp  == /\ Step("dhcp", "harvest") /\ dhcp' \in BOOLEAN
         /\ UNCHANGED <<wpa, desk, android, master>>
Harvest == /\ Step("harvest", "ended") /\ harvester' = TRUE
           /\ UNCHANGED <<kwin, plasma, ok, wifi, android, master>>

\* Faulty variant: the framework is started before system_suspend.
RollbackUnsuspended ==
  \/ Step("rbkill", "rbunlock") /\ KillLinuxStack /\ UNCHANGED android
  \/ /\ Step("rbunlock", "rbstart") /\ lock' = FALSE
     /\ UNCHANGED <<desk, wifi, suspend, composer, wanted, sf, master>>
  \/ /\ Step("rbstart", "rbsuspend") /\ wanted' = TRUE
     /\ UNCHANGED <<desk, wifi, suspend, lock, composer, sf, master>>
  \/ /\ Step("rbsuspend", "rbcomposer") /\ suspend' = TRUE
     /\ UNCHANGED <<desk, wifi, lock, composer, wanted, sf, master>>
  \/ /\ Step("rbcomposer", "failed") /\ composer' = TRUE
     /\ UNCHANGED <<desk, wifi, suspend, lock, wanted, sf, master>>

(* rollback() *)
Rollback ==
  \/ Step("rbkill", "rbunlock") /\ KillLinuxStack /\ UNCHANGED android
  \/ /\ Step("rbunlock", "rbsuspend") /\ lock' = FALSE
     /\ UNCHANGED <<desk, wifi, suspend, composer, wanted, sf, master>>
  \/ /\ Step("rbsuspend", "rbcomposer") /\ suspend' = TRUE
     /\ UNCHANGED <<desk, wifi, lock, composer, wanted, sf, master>>
  \/ /\ Step("rbcomposer", "rbstart") /\ composer' = TRUE
     /\ UNCHANGED <<desk, wifi, suspend, lock, wanted, sf, master>>
  \/ /\ Step("rbstart", "failed") /\ wanted' = TRUE
     /\ UNCHANGED <<desk, wifi, suspend, lock, composer, sf, master>>

Killed == /\ pc \notin Over /\ pc' = "killed"
          /\ UNCHANGED <<run, static, gen, stopper, desk, wifi, android, master>>

-----------------------------------------------------------------------------
(* scripts/desk-stop.sh, at any time after the first takeover was started.   *)
StopGo(from, to) == stop = from /\ stop' = to /\ UNCHANGED <<script, begun, retries>>

StopBegin ==
  /\ run > 0 /\ stop = "idle" /\ stop' = "kill"
  /\ begun' = IF pc \in Over THEN "over" ELSE IF pc \in Before THEN "early" ELSE "late"
  /\ UNCHANGED <<script, retries, desk, wifi, android, master>>

KillDesktop == KillsDesktop /\ KillsWifi("static") /\ UNCHANGED ok

StopKill     == StopGo("kill", "unlock") /\ KillDesktop /\ UNCHANGED android

\* Faulty variant: the wake lock is kept.
StopUnlockKept == StopGo("unlock", "suspend") /\ UNCHANGED <<desk, wifi, android, master>>

StopUnlock   == /\ StopGo("unlock", "suspend") /\ lock' = FALSE
                /\ UNCHANGED <<desk, wifi, suspend, composer, wanted, sf, master>>
StopSuspend  == /\ StopGo("suspend", "composer") /\ suspend' = TRUE
                /\ UNCHANGED <<desk, wifi, lock, composer, wanted, sf, master>>

StopComposerOn == /\ StopGo("composer", "start") /\ composer' = TRUE
                  /\ UNCHANGED <<desk, wifi, suspend, lock, wanted, sf, master>>
StopStart    == /\ StopGo("start", "poll") /\ wanted' = TRUE
                /\ UNCHANGED <<desk, wifi, suspend, lock, composer, sf, master>>

(* Every sixth look at surfaceflinger kills again, and starts again.         *)
StopLooks ==
  /\ \/ sf /\ StopGo("poll", "rm")
     \/ ~sf /\ retries = MaxRetries /\ StopGo("poll", "rm")
     \/ /\ ~sf /\ retries < MaxRetries /\ retries' = retries + 1
        /\ stop = "poll" /\ stop' = "again" /\ UNCHANGED <<script, begun>>
  /\ UNCHANGED <<desk, wifi, android, master>>

StopAgain   == StopGo("again", "restart") /\ KillDesktop /\ UNCHANGED android
StopRestart == /\ StopGo("restart", "poll") /\ suspend' = TRUE /\ wanted' = TRUE
               /\ UNCHANGED <<desk, wifi, lock, composer, sf, master>>
StopRm      == /\ StopGo("rm", "done") /\ ok' = FALSE
               /\ UNCHANGED <<kwin, plasma, harvester, wifi, android, master>>

-----------------------------------------------------------------------------
(* Android and kwin. *)
ComposerClaims == /\ composer /\ master = None /\ master' = "composer"
                  /\ UNCHANGED <<script, stopper, desk, wifi, android>>
SfUp    == /\ wanted /\ ~sf /\ suspend /\ master = "composer" /\ sf' = TRUE
           /\ UNCHANGED <<script, stopper, desk, wifi, suspend, lock, composer, wanted, master>>
SfFails == /\ wanted /\ ~sf /\ master = "kwin" /\ wanted' = FALSE
           /\ UNCHANGED <<script, stopper, desk, wifi, suspend, lock, composer, sf, master>>
KwinDies == /\ kwin /\ kwin' = FALSE /\ plasma' = FALSE /\ master' = Without("kwin")
            /\ UNCHANGED <<script, stopper, harvester, ok, wifi, android>>

Takeover == \/ WifiConf \/ SuspendOff \/ WakeLock \/ StopAndroid \/ StopComposer \/ Clear \/ Launch
            \/ Look \/ Desktop \/ TouchOk \/ Wifi \/ Assoc \/ Dhcp \/ Harvest \/ Rollback
DeskStop == \/ StopKill \/ StopUnlock \/ StopSuspend \/ StopComposerOn \/ StopStart
            \/ StopLooks \/ StopAgain \/ StopRestart \/ StopRm
Android  == ComposerClaims \/ SfUp \/ SfFails

Next == Start \/ Takeover \/ Killed \/ StopBegin \/ DeskStop \/ Android \/ KwinDies

(* desk-stop.sh goes on until it is done; the composer takes a free panel    *)
(* and surfaceflinger comes up if it can.                                    *)
Spec     == Init /\ [][Next]_vars
FairSpec == Spec /\ WF_vars(DeskStop) /\ WF_vars(ComposerClaims) /\ WF_vars(SfUp)

-----------------------------------------------------------------------------
(* Properties.                                                               *)

(* desk-takeover.sh:59-61: the framework started without system_suspend      *)
(* hangs until the watchdog reboots the device.  Neither script starts it    *)
(* so, whatever the other is doing, but for one start: desk-stop.sh's first, *)
(* if it was begun in the early part of a takeover, which may then stop      *)
(* system_suspend behind its back.                                           *)
SuspendFirst ==
  [][~wanted /\ wanted' => suspend' \/ (begun = "early" /\ stop = "start")]_vars

(* When desk-stop.sh is done, also if a takeover that had got to kwin is     *)
(* still running: kwin is gone, the device may suspend, and the framework    *)
(* and the composer were started and stay so.  If the takeover was over,     *)
(* nothing else of it is left either, but for a wpa_supplicant with the      *)
(* generated configuration.                                                  *)
StopReturns ==
  /\ stop = "done" /\ begun # "early" =>
       ~kwin /\ master # "kwin" /\ suspend /\ ~lock /\ composer /\ wanted
  /\ stop = "done" /\ begun = "over" => ~plasma /\ ~harvester /\ ~ok /\ ~dhcp /\ wpa # "static"

(* Android's display comes back after a rollback and after desk-stop.sh,     *)
(* unless another takeover is started.                                       *)
DisplayReturns ==
  /\ pc = "failed" /\ begun # "early" ~> sf \/ pc # "failed" \/ begun = "early"
  /\ stop = "kill" /\ begun # "early" ~> sf \/ stop = "idle"

(* desk-stop.sh:2: it gives "the display and WiFi all back to Android".      *)
WifiReturned == stop = "done" /\ begun = "over" => wpa = None
=============================================================================
