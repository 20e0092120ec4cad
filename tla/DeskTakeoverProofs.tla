------------------------ MODULE DeskTakeoverProofs ------------------------
(***************************************************************************)
(* Theorems about DeskTakeover, for any number of takeovers and of         *)
(* retries: what desk-stop.sh has given back when it is done, and that     *)
(* neither script starts the framework without system_suspend.             *)
(***************************************************************************)
EXTENDS DeskTakeover, TLAPS

(* The places of desk-stop.sh behind each of its commands.                   *)
AfterStart    == {"poll", "again", "restart", "rm", "done"}
AfterComposer == AfterStart \cup {"start"}
AfterSuspend  == AfterComposer \cup {"composer"}
AfterUnlock   == AfterSuspend \cup {"suspend"}
AfterKill     == AfterUnlock \cup {"unlock"}

(* While desk-stop.sh runs no takeover begins: one that was over stays so,   *)
(* and one that had got to kwin does not go back.                            *)
BegunInv ==
  /\ begun \in {"over", "early", "late"}
  /\ stop # "idle" /\ begun = "over" => pc \in Over
  /\ stop # "idle" /\ begun = "late" => pc \notin Before

(* What desk-stop.sh has done stays done, unless it overtook the beginning   *)
(* of a takeover.                                                            *)
ReturnInv ==
  begun # "early" =>
    /\ stop \in AfterKill     => ~kwin /\ master # "kwin"
    /\ stop \in AfterUnlock   => ~lock
    /\ stop \in AfterSuspend  => suspend
    /\ stop \in AfterComposer => composer
    /\ stop \in AfterStart    => wanted

(* If the takeover was over, nothing of the desktop comes back.              *)
DesktopInv ==
  begun = "over" =>
    /\ stop \in AfterKill => ~plasma /\ ~harvester /\ ~dhcp /\ wpa # "static"
    /\ stop = "done" => ~ok

(* rollback() starts system_suspend before the framework.                    *)
RollbackInv == pc \in {"rbcomposer", "rbstart"} => suspend

IInv == BegunInv /\ ReturnInv /\ DesktopInv /\ RollbackInv

-----------------------------------------------------------------------------
(* Every step keeps the invariant, one lemma for each group of actions.      *)

(* No action of desk-takeover.sh but those before kwin is started can take   *)
(* back what desk-stop.sh has done.                                          *)
LEMMA TakeoverKeeps == ASSUME IInv, Takeover PROVE IInv'
<1> USE DEF IInv, BegunInv, ReturnInv, DesktopInv, RollbackInv, AfterKill, AfterUnlock,
        AfterSuspend, AfterComposer, AfterStart, Over, Before, stopper, desk, wifi, android,
        Step, Go
<1>1. CASE WifiConf     BY <1>1 DEF WifiConf
<1>2. CASE SuspendOff   BY <1>2 DEF SuspendOff
<1>3. CASE WakeLock     BY <1>3 DEF WakeLock
<1>4. CASE StopAndroid  BY <1>4 DEF StopAndroid
<1>5. CASE StopComposer BY <1>5, NoneAssumption DEF StopComposer, Without
<1>6. CASE Clear        BY <1>6, NoneAssumption DEF Clear, KillLinuxStack, KillsDesktop, KillsWifi, Without, Conf
<1>7. CASE Launch       BY <1>7 DEF Launch
<1>8. CASE Look         BY <1>8 DEF Look
<1>9. CASE Desktop      BY <1>9 DEF Desktop
<1>10. CASE TouchOk     BY <1>10 DEF TouchOk
<1>11. CASE Wifi        BY <1>11 DEF Wifi, Conf
<1>12. CASE Assoc       BY <1>12, NoneAssumption DEF Assoc
<1>13. CASE Dhcp        BY <1>13 DEF Dhcp
<1>14. CASE Harvest     BY <1>14 DEF Harvest
<1>15. CASE Rollback
  BY <1>15, NoneAssumption DEF Rollback, KillLinuxStack, KillsDesktop, KillsWifi, Without, Conf
<1> QED
  BY <1>1, <1>2, <1>3, <1>4, <1>5, <1>6, <1>7, <1>8, <1>9, <1>10, <1>11, <1>12, <1>13, <1>14, <1>15
     DEF Takeover

(* desk-stop.sh does what the invariant says, one command after the other.   *)
LEMMA DeskStopKeeps == ASSUME IInv, DeskStop PROVE IInv'
<1> USE DEF IInv, BegunInv, ReturnInv, DesktopInv, RollbackInv, AfterKill, AfterUnlock,
        AfterSuspend, AfterComposer, AfterStart, Over, Before, script, desk, wifi, android, StopGo
<1>1. CASE StopKill  BY <1>1, NoneAssumption DEF StopKill, KillDesktop, KillsDesktop, KillsWifi, Without
<1>2. CASE StopUnlock     BY <1>2 DEF StopUnlock
<1>3. CASE StopSuspend    BY <1>3 DEF StopSuspend
<1>4. CASE StopComposerOn BY <1>4 DEF StopComposerOn
<1>5. CASE StopStart      BY <1>5 DEF StopStart
<1>6. CASE StopLooks      BY <1>6 DEF StopLooks
<1>7. CASE StopAgain BY <1>7, NoneAssumption DEF StopAgain, KillDesktop, KillsDesktop, KillsWifi, Without
<1>8. CASE StopRestart    BY <1>8 DEF StopRestart
<1>9. CASE StopRm         BY <1>9 DEF StopRm
<1> QED BY <1>1, <1>2, <1>3, <1>4, <1>5, <1>6, <1>7, <1>8, <1>9 DEF DeskStop

(* Starting and ending scripts, Android and the death of kwin.               *)
LEMMA OthersKeep ==
  ASSUME IInv, Start \/ Killed \/ StopBegin \/ Android \/ KwinDies \/ UNCHANGED vars
  PROVE  IInv'
<1> USE DEF IInv, BegunInv, ReturnInv, DesktopInv, RollbackInv, AfterKill, AfterUnlock,
        AfterSuspend, AfterComposer, AfterStart, Over, Before, script, stopper, desk, wifi
<1>1. CASE Start     BY <1>1 DEF Start, android
<1>2. CASE Killed    BY <1>2 DEF Killed, android
<1>3. CASE StopBegin BY <1>3 DEF StopBegin, android
<1>4. CASE Android   BY <1>4 DEF Android, ComposerClaims, SfUp, SfFails, android
<1>5. CASE KwinDies  BY <1>5, NoneAssumption DEF KwinDies, Without, android
<1>6. CASE UNCHANGED vars BY <1>6 DEF vars, android
<1> QED BY <1>1, <1>2, <1>3, <1>4, <1>5, <1>6

LEMMA Initially == Init => IInv
BY DEF Init, IInv, BegunInv, ReturnInv, DesktopInv, RollbackInv, AfterKill, AfterUnlock,
       AfterSuspend, AfterComposer, AfterStart, Over, Before

LEMMA Invariant == Spec => []IInv
<1>1. IInv /\ [Next]_vars => IInv'
  BY TakeoverKeeps, DeskStopKeeps, OthersKeep DEF Next
<1> QED BY Initially, <1>1, PTL DEF Spec

-----------------------------------------------------------------------------
(* The theorems.                                                             *)

(* When desk-stop.sh is done, everything is given back, also if a takeover   *)
(* that had got to kwin is still running: desk-stop.sh:48-89.                *)
THEOREM GivenBack == Spec => []StopReturns
<1>1. IInv => StopReturns
  BY DEF IInv, ReturnInv, DesktopInv, StopReturns, AfterKill, AfterUnlock, AfterSuspend,
         AfterComposer, AfterStart
<1> QED BY Invariant, <1>1, PTL

(* Neither rollback() nor a retry of desk-stop.sh ever starts the framework  *)
(* while system_suspend is stopped: desk-takeover.sh:59-62, desk-stop.sh:76. *)
(* Nor does desk-stop.sh's first start (:66), unless desk-stop.sh was begun  *)
(* in the early part of a takeover, before that has started kwin; in that    *)
(* case it may (SuspendOff between StopSuspend and StopStart).               *)
THEOREM SuspendStarted == Spec => SuspendFirst
<1>1. IInv /\ [Next]_vars => 
        [~wanted /\ wanted' => suspend' \/ (begun = "early" /\ stop = "start")]_vars
  <2> SUFFICES ASSUME IInv, Next, ~wanted, wanted', ~(begun = "early" /\ stop = "start")
               PROVE  suspend'
    BY DEF vars
  <2> USE DEF IInv, ReturnInv, RollbackInv, android
  <2>1. CASE Takeover
    <3>1. Rollback
      BY <2>1 DEF Takeover, WifiConf, SuspendOff, WakeLock, StopAndroid, StopComposer, Clear,
                  Launch, Look, Desktop, TouchOk, Wifi, Assoc, Dhcp, Harvest
    <3> QED BY <3>1 DEF Rollback, Step, Go
  <2>2. CASE DeskStop
    <3>1. StopStart \/ StopRestart
      BY <2>2 DEF DeskStop, StopKill, StopUnlock, StopSuspend, StopComposerOn, StopLooks,
                  StopAgain, StopRm
    <3> QED BY <3>1 DEF StopStart, StopRestart, StopGo, AfterSuspend, AfterComposer, AfterStart
  <2>3. CASE Start \/ Killed \/ StopBegin \/ Android \/ KwinDies
    BY <2>3 DEF Start, Killed, StopBegin, Android, ComposerClaims, SfUp, SfFails, KwinDies
  <2> QED BY <2>1, <2>2, <2>3 DEF Next
<1> QED BY Invariant, <1>1, PTL DEF Spec, SuspendFirst
=============================================================================
