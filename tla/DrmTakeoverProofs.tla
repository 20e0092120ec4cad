-------------------------- MODULE DrmTakeoverProofs --------------------------
(* Theorems about DrmTakeover, for any number of runs in any settings and    *)
(* with any signals.                                                         *)
EXTENDS DrmTakeover, TLAPS

TInv == TypeOK /\ StopInv /\ FreezeInv /\ FuseInv

LEMMA InitInv == Init => TInv
<1> SUFFICES ASSUME Init PROVE TInv
  OBVIOUS
<1>1. TypeOK
  <2>1. run \in 0..MaxRuns /\ frozen \in 0..run
    BY RunsAssumption DEF Init
  <2>2. \A r \in Runs : fuse[r] = "none" <=> r > run
    BY RunsAssumption DEF Init, Runs
  <2>3. QED
    BY <2>1, <2>2, Zenon DEF Init, TypeOK, Ended, Labels, FuseStates, StopLabels
<1>2. StopInv /\ FreezeInv /\ FuseInv
  BY DEF Init, StopInv, FreezeInv, FuseInv
<1>3. QED
  BY <1>1, <1>2 DEF TInv

(* The steps that leave run and fuse alone.                                  *)
Plain == \/ Disarm \/ StopAndroid \/ RemoveOk \/ Claim \/ Launch \/ Look
         \/ KeepAwake \/ Freeze \/ Persist \/ Work \/ Quit \/ Finish \/ Exit
         \/ DrmStop \/ KwinDies \/ Signalled \/ HelpersLeave \/ Restart

LEMMA NextCases == Next => Start \/ Plain \/ Fuse \/ WatchdogStrikes
  BY DEF Next, Takeover, Plain

LEMMA ControlStep ==
  TypeOK /\ [Next]_vars => /\ mode' \in Modes /\ run' \in 0..MaxRuns
                          /\ pc' \in Labels /\ stop' \in StopLabels
                          /\ restart' \in {"idle", "killed"}
<1> SUFFICES ASSUME TypeOK, [Next]_vars
             PROVE  /\ mode' \in Modes /\ run' \in 0..MaxRuns
                    /\ pc' \in Labels /\ stop' \in StopLabels
                    /\ restart' \in {"idle", "killed"}
  OBVIOUS
<1> USE DEF TypeOK, Ended, Labels, StopLabels, At, Go, Stop, control
<1>1. CASE Start
  <2>1. run' \in 0..MaxRuns /\ mode' \in Modes
    BY <1>1, RunsAssumption DEF Start, Startable, Started
  <2>2. QED
    BY <1>1, <2>1 DEF Start, Started
<1>2. CASE Disarm \/ StopAndroid \/ RemoveOk \/ Claim \/ Launch \/ Look
  BY <1>2 DEF Disarm, StopAndroid, RemoveOk, Claim, Launch, Look
<1>3. CASE KeepAwake \/ Freeze \/ Persist \/ Work \/ Quit \/ Finish \/ Exit
  BY <1>3 DEF KeepAwake, Freeze, Persist, Work, Quit, Finish, Exit
<1>4. CASE DrmStop
  BY <1>4 DEF DrmStop, StopBegin, StopKill, StopThaw, StopDisplay, StopDefaults, StopResume,
              StopRemoveOk
<1>5. CASE Fuse
  BY <1>5 DEF Fuse, FuseWakes, FuseRestores
<1>6. CASE Signalled \/ KwinDies \/ HelpersLeave \/ Restart
  BY <1>6 DEF Signalled, KwinDies, HelpersLeave, Restart, RestartKill, RestartStart
<1>7. CASE WatchdogStrikes
  BY <1>7 DEF WatchdogStrikes
<1>8. CASE UNCHANGED vars
  BY <1>8 DEF vars
<1>9. QED
  BY <1>1, <1>2, <1>3, <1>4, <1>5, <1>6, <1>7, <1>8 DEF Next, Takeover

(* Each run throws one fuse, and a fuse once thrown is never "none" again.   *)
LEMMA FuseTypeStep ==
  TypeOK /\ [Next]_vars => /\ fuse' \in [Runs -> FuseStates]
                          /\ \A r \in Runs : fuse'[r] = "none" <=> r > run'
<1> SUFFICES ASSUME TypeOK, [Next]_vars
             PROVE  /\ fuse' \in [Runs -> FuseStates]
                    /\ \A r \in Runs : fuse'[r] = "none" <=> r > run'
  OBVIOUS
<1>0. /\ fuse \in [Runs -> FuseStates] /\ run \in Nat
      /\ \A r \in Runs : fuse[r] = "none" <=> r > run
  BY RunsAssumption DEF TypeOK
<1>1. CASE Start
  <2>1. run' = run + 1 /\ fuse' = [fuse EXCEPT ![run + 1] = "asleep"]
    BY <1>1 DEF Start, Started
  <2>2. fuse' \in [Runs -> FuseStates]
    BY <1>0, <2>1 DEF FuseStates
  <2>3. ASSUME NEW r \in Runs PROVE fuse'[r] = "none" <=> r > run'
    <3>1. CASE r = run + 1
      BY <1>0, <2>1, <3>1
    <3>2. CASE r # run + 1
      <4>1. fuse'[r] = fuse[r]
        BY <1>0, <2>1, <3>2
      <4>2. r > run <=> r > run + 1
        BY <1>0, <3>2 DEF Runs
      <4>3. QED
        BY <1>0, <2>1, <4>1, <4>2
    <3>3. QED
      BY <3>1, <3>2
  <2>4. QED
    BY <2>2, <2>3
<1>2. CASE Plain
  <2>1. UNCHANGED <<run, fuse>>
    BY <1>2 DEF Plain, DrmStop, Restart, Disarm, StopAndroid, RemoveOk, Claim, Launch, Look,
                KeepAwake, Freeze, Persist, Work, Quit, Finish, Exit, StopBegin, StopKill,
                StopThaw, StopDisplay, StopDefaults, StopResume, StopRemoveOk, KwinDies,
                Signalled, HelpersLeave, RestartKill, RestartStart, Go, Stop, control
  <2>2. QED
    BY <1>0, <2>1
<1>3. CASE Fuse
  <2>1. PICK r \in Runs : FuseWakes(r) \/ FuseRestores(r)
    BY <1>3 DEF Fuse
  <2>2. /\ fuse[r] # "none" /\ run' = run
        /\ \E f \in {"restoring", "gone"} : fuse' = [fuse EXCEPT ![r] = f]
    BY <2>1 DEF FuseWakes, FuseRestores
  <2>3. fuse' \in [Runs -> FuseStates]
    BY <1>0, <2>2 DEF FuseStates
  <2>4. QED
    BY <1>0, <2>2, <2>3
<1>4. CASE WatchdogStrikes
  <2>1. run' = run /\ fuse' = [r \in Runs |-> IF r <= run THEN "gone" ELSE "none"]
    BY <1>4 DEF WatchdogStrikes
  <2>2. fuse' \in [Runs -> FuseStates]
    BY <2>1 DEF FuseStates
  <2>3. ASSUME NEW r \in Runs PROVE fuse'[r] = "none" <=> r > run'
    BY <1>0, <2>1, <2>3 DEF Runs
  <2>4. QED
    BY <2>2, <2>3
<1>5. CASE UNCHANGED vars
  BY <1>0, <1>5 DEF vars, control
<1>6. QED
  BY <1>1, <1>2, <1>3, <1>4, <1>5, NextCases

LEMMA FrozenStep == TypeOK /\ [Next]_vars => frozen' \in 0..run'
<1> SUFFICES ASSUME TypeOK, [Next]_vars PROVE frozen' \in 0..run'
  OBVIOUS
<1>0. run \in Nat /\ frozen \in 0..run
  BY RunsAssumption DEF TypeOK
<1>1. \/ frozen' = frozen /\ run' = run
      \/ frozen' = frozen /\ run' = run + 1
      \/ frozen' = run /\ run' = run
      \/ frozen' = 0 /\ run' = run
  <2> USE DEF Go, Stop, vars, control, android
  <2>1. CASE Start \/ Disarm \/ StopAndroid \/ RemoveOk \/ Claim \/ Launch \/ Look
    BY <2>1 DEF Start, Started, Disarm, StopAndroid, RemoveOk, Claim, Launch, Look
  <2>2. CASE KeepAwake \/ Freeze \/ Persist \/ Work \/ Quit \/ Finish \/ Exit
    BY <2>2 DEF KeepAwake, Freeze, Persist, Work, Quit, Finish, Exit
  <2>3. CASE DrmStop
    BY <2>3 DEF DrmStop, StopBegin, StopKill, StopThaw, StopDisplay, StopDefaults, StopResume,
                StopRemoveOk
  <2>4. CASE Fuse
    BY <2>4 DEF Fuse, FuseWakes, FuseRestores
  <2>5. CASE Signalled \/ KwinDies \/ HelpersLeave \/ Restart
    BY <2>5 DEF Signalled, KwinDies, HelpersLeave, Restart, RestartKill, RestartStart
  <2>6. CASE WatchdogStrikes \/ UNCHANGED vars
    BY <2>6 DEF WatchdogStrikes
  <2>7. QED
    BY <2>1, <2>2, <2>3, <2>4, <2>5, <2>6, Zenon DEF Next, Takeover
<1>2. QED
  BY <1>0, <1>1

LEMMA TypeStep == TypeOK /\ [Next]_vars => TypeOK'
<1> SUFFICES ASSUME TypeOK, [Next]_vars PROVE TypeOK'
  OBVIOUS
<1>1. /\ restarted' \in BOOLEAN /\ ok' \in BOOLEAN /\ helpers' \in BOOLEAN
      /\ kwin' \subseteq {"own", "other"} /\ display' \in BOOLEAN
      /\ defaults' \in BOOLEAN /\ maxTimeout' \in BOOLEAN
      /\ suspend' \in BOOLEAN /\ wakelock' \in BOOLEAN
  <2> USE DEF TypeOK, Go, Stop, vars, control, android, settings, power, Next, Takeover, Fuse,
              DrmStop, Restart, Start, Started, Disarm, StopAndroid, RemoveOk, Claim, Launch,
              Look, KeepAwake, Freeze, Persist, Work, Quit, Finish, Exit, Signalled, FuseWakes,
              FuseRestores, StopBegin, StopKill, StopThaw, StopDisplay, StopDefaults,
              StopResume, StopRemoveOk, RestartKill, RestartStart, KwinDies, HelpersLeave,
              WatchdogStrikes
  <2>1. restarted' \in BOOLEAN
    OBVIOUS
  <2>2. ok' \in BOOLEAN
    OBVIOUS
  <2>3. helpers' \in BOOLEAN
    OBVIOUS
  <2>4. kwin' \subseteq {"own", "other"}
    OBVIOUS
  <2>5. display' \in BOOLEAN
    OBVIOUS
  <2>6. defaults' \in BOOLEAN
    OBVIOUS
  <2>7. maxTimeout' \in BOOLEAN
    OBVIOUS
  <2>8. suspend' \in BOOLEAN
    OBVIOUS
  <2>9. wakelock' \in BOOLEAN
    OBVIOUS
  <2>10. QED
    BY <2>1, <2>2, <2>3, <2>4, <2>5, <2>6, <2>7, <2>8, <2>9
<1>2. QED
  BY <1>1, ControlStep, FuseTypeStep, FrozenStep, Zenon DEF TypeOK

(* A step of drm-takeover.sh itself.  It is not taken while drm-stop.sh is   *)
(* at work, and a new run makes drm-stop.sh's work void.                     *)
LEMMA TakeoverStep == TInv /\ Takeover => StopInv' /\ FreezeInv'
<1> SUFFICES ASSUME TInv, Takeover PROVE StopInv' /\ FreezeInv'
  OBVIOUS
<1>0. StopInv /\ FreezeInv /\ run \in Nat /\ frozen \in 0..run
  BY RunsAssumption DEF TInv, TypeOK
<1> USE <1>0 DEF StopInv, FreezeInv, Ended, At, Go, android, settings, power
<1>1. CASE Start
  BY <1>1 DEF Start, Startable, Started
<1>2. CASE Disarm \/ StopAndroid \/ RemoveOk
  BY <1>2 DEF Disarm, StopAndroid, RemoveOk
<1>3. CASE Claim \/ Launch \/ Look
  BY <1>3 DEF Claim, Launch, Look
<1>4. CASE KeepAwake \/ Persist
  BY <1>4 DEF KeepAwake, Persist
<1>5. CASE Freeze
  <2>1. run # 0
    BY <1>5 DEF Freeze
  <2>2. QED
    BY <1>5, <2>1 DEF Freeze
<1>6. CASE Work \/ Quit \/ Finish
  BY <1>6 DEF Work, Quit, Finish
<1>7. CASE Exit
  BY <1>7 DEF Exit
<1>8. QED
  BY <1>1, <1>2, <1>3, <1>4, <1>5, <1>6, <1>7, Zenon DEF Takeover

(* A step of drm-stop.sh: each adds its own part of StopInv.                 *)
LEMMA StopStep == TInv /\ DrmStop => StopInv' /\ FreezeInv'
<1> SUFFICES ASSUME TInv, DrmStop PROVE StopInv' /\ FreezeInv'
  OBVIOUS
<1>0. StopInv /\ FreezeInv
  BY DEF TInv
<1> USE <1>0 DEF StopInv, FreezeInv, Ended, Stop, android, settings, power
<1>1. CASE StopBegin
  BY <1>1 DEF StopBegin
<1>2. CASE StopKill
  BY <1>2 DEF StopKill
<1>3. CASE StopThaw
  BY <1>3 DEF StopThaw
<1>4. CASE StopDisplay
  BY <1>4 DEF StopDisplay
<1>5. CASE StopDefaults
  BY <1>5 DEF StopDefaults
<1>6. CASE StopResume
  BY <1>6 DEF StopResume
<1>7. CASE StopRemoveOk
  BY <1>7 DEF StopRemoveOk
<1>8. QED
  BY <1>1, <1>2, <1>3, <1>4, <1>5, <1>6, <1>7, Zenon DEF DrmStop

(* A signal, a fuse, the end of kwin or of the helpers, a restart of kwin, a *)
(* watchdog.                                                                 *)
LEMMA OtherStep ==
  TInv /\ (Signalled \/ Fuse \/ KwinDies \/ HelpersLeave \/ Restart \/ WatchdogStrikes)
    => StopInv' /\ FreezeInv'
<1> SUFFICES ASSUME TInv,
                    Signalled \/ Fuse \/ KwinDies \/ HelpersLeave \/ Restart \/ WatchdogStrikes
             PROVE  StopInv' /\ FreezeInv'
  OBVIOUS
<1>0. StopInv /\ FreezeInv
  BY DEF TInv
<1> USE <1>0 DEF StopInv, FreezeInv, Ended, At, Go, control, android, settings, power
<1>1. CASE Signalled
  BY <1>1 DEF Signalled
<1>2. CASE Fuse
  BY <1>2 DEF Fuse, FuseWakes, FuseRestores
<1>3. CASE KwinDies
  BY <1>3 DEF KwinDies
<1>4. CASE HelpersLeave
  BY <1>4 DEF HelpersLeave
<1>5. CASE Restart
  BY <1>5 DEF Restart, RestartKill, RestartStart
<1>6. CASE WatchdogStrikes
  BY <1>6 DEF WatchdogStrikes, WatchdogMayStrike
<1>7. QED
  BY <1>1, <1>2, <1>3, <1>4, <1>5, <1>6, Zenon

LEMMA FuseStep == TypeOK /\ FuseInv /\ [Next]_vars => FuseInv'
<1> SUFFICES ASSUME TypeOK, FuseInv, [Next]_vars,
                    NEW r \in Runs, fuse'[r] = "restoring", run' = r
             PROVE  pc' \in Ended /\ ~ok'
  BY DEF FuseInv
<1>0. /\ run \in 0..MaxRuns /\ fuse \in [Runs -> FuseStates]
      /\ fuse[r] = "restoring" /\ run = r => pc \in Ended /\ ~ok
  BY DEF TypeOK, FuseInv
<1> USE <1>0 DEF Ended, At, Go, Stop, control, android
<1>1. CASE Start
  <2>1. run' = run + 1 /\ run + 1 \in Runs
    BY <1>1, RunsAssumption DEF Start, Startable, Started, Runs
  <2>2. fuse'[r] = "asleep"
    BY <1>1, <2>1 DEF Start
  <2>3. QED
    BY <2>2
<1>2. CASE Disarm \/ StopAndroid \/ RemoveOk \/ Claim \/ Launch \/ Look
  BY <1>2 DEF Disarm, StopAndroid, RemoveOk, Claim, Launch, Look
<1>3. CASE KeepAwake \/ Freeze \/ Persist \/ Work \/ Quit \/ Finish \/ Exit
  BY <1>3 DEF KeepAwake, Freeze, Persist, Work, Quit, Finish, Exit
<1>4. CASE DrmStop
  BY <1>4 DEF DrmStop, StopBegin, StopKill, StopThaw, StopDisplay, StopDefaults, StopResume,
              StopRemoveOk
<1>5. CASE \E q \in Runs : FuseWakes(q)
  BY <1>5 DEF FuseWakes, Alive
<1>6. CASE \E q \in Runs : FuseRestores(q)
  BY <1>6 DEF FuseRestores
<1>7. CASE Signalled \/ KwinDies \/ HelpersLeave \/ Restart
  BY <1>7 DEF Signalled, KwinDies, HelpersLeave, Restart, RestartKill, RestartStart
<1>8. CASE WatchdogStrikes
  BY <1>8 DEF WatchdogStrikes
<1>9. CASE UNCHANGED vars
  BY <1>9 DEF vars
<1>10. QED
  BY <1>1, <1>2, <1>3, <1>4, <1>5, <1>6, <1>7, <1>8, <1>9, Zenon DEF Next, Takeover, Fuse

LEMMA Inductive == Spec => []TInv
<1>1. TInv /\ UNCHANGED vars => StopInv' /\ FreezeInv'
  BY DEF TInv, StopInv, FreezeInv, vars, control, android, settings, power
<1>2. TInv /\ [Next]_vars => TInv'
  BY <1>1, TypeStep, TakeoverStep, StopStep, OtherStep, FuseStep DEF Next, TInv
<1>3. QED
  BY InitInv, <1>2, PTL DEF Spec

(* Every variable keeps its type: each script is at one of its places, each  *)
(* run that was started has thrown one fuse, and system_server was frozen by *)
(* a run that was started.                                                   *)
THEOREM TypeCorrect == Spec => []TypeOK
<1>1. TInv => TypeOK
  BY DEF TInv
<1>2. QED
  BY Inductive, <1>1, PTL

(* However far a takeover got before it was killed, terminated or ended, a   *)
(* drm-stop.sh that is done has given the display, system_server, the        *)
(* settings of the watchdogs, system_suspend and the wake lock back, and has *)
(* left no helper, no takeover.ok and no kwin but one that kwin-restart.sh   *)
(* started meanwhile.  (screen_off_timeout it does not give back.)           *)
THEOREM StopIsComplete == Spec => []StopUndoesAll
<1>1. TInv => StopUndoesAll
  BY DEF TInv, StopInv, StopUndoesAll
<1>2. QED
  BY Inductive, <1>1, PTL

(* The watchdogs, which no setting holds off, have no chance to strike under *)
(* a takeover that persists: system_server is frozen from before its helpers *)
(* start until drm-stop.sh thaws it, whatever fuses, restarts and later runs *)
(* do; the windows that remain are those named in WatchdogHeld.              *)
THEOREM FrozenWhileStopped == Spec => []WatchdogHeld
<1>1. TInv => WatchdogHeld
  BY DEF TInv, TypeOK, StopInv, FreezeInv, StopLabels, Ended, WatchdogMayStrike, WatchdogHeld
<1>2. QED
  BY Inductive, <1>1, PTL

(* However the runs, their fuses and drm-stop.sh interleave, the fuse of a   *)
(* run does not start Android's display under that run's own takeover once   *)
(* it has ended with takeover.ok there.  The fuses of earlier runs are left  *)
(* out: one that woke before takeover.ok was touched does start it.          *)
THEOREM OwnFuseHarmless == Spec => PersistUndisturbed
<1> DEFINE Step == \A r \in Runs : FuseRestores(r) => ~(run = r /\ pc = "ended" /\ ok)
<1>1. TInv /\ [Next]_vars => [Step]_vars
  BY DEF TInv, FuseInv, FuseRestores
<1>2. Spec => [][Step]_vars
  BY Inductive, <1>1, PTL DEF Spec
<1>3. QED
  BY <1>2 DEF PersistUndisturbed

(* drm-stop.sh thaws system_server before it starts the display, however far *)
(* the takeover got; and nothing else starts the display under a frozen      *)
(* system_server but what ThawedBeforeDisplay names: the trap of a round     *)
(* started over a takeover that was never stopped, the fuse of a run cut     *)
(* short before takeover.ok, and the fuse of an earlier run.                 *)
THEOREM ThawedFirst == Spec => ThawedBeforeDisplay
<1> DEFINE Step == display' /\ ~display /\ frozen' # 0 =>
                     \/ Exit /\ frozen < run
                     \/ \E r \in Runs : FuseRestores(r) /\ (r < run \/ ~ok)
<1>1. TInv /\ [Next]_vars => [Step]_vars
  <2> SUFFICES ASSUME TInv, Next PROVE Step
    OBVIOUS
  <2>1. CASE StopDisplay
    BY <2>1 DEF StopDisplay, Stop, TInv, StopInv
  <2>2. CASE Exit
    <3>1. run \in Nat /\ frozen \in 0..run /\ (frozen # 0 /\ frozen = run => mode.persist)
      BY RunsAssumption DEF TInv, TypeOK, FreezeInv
    <3>2. display' /\ ~display => ~mode.persist
      BY <2>2 DEF Exit
    <3>3. frozen' = frozen
      BY <2>2 DEF Exit
    <3>4. QED
      BY <2>2, <3>1, <3>2, <3>3
  <2>3. CASE Fuse
    <3>1. PICK r \in Runs : FuseWakes(r) \/ FuseRestores(r)
      BY <2>3 DEF Fuse
    <3>2. CASE FuseWakes(r)
      BY <3>2 DEF FuseWakes, android
    <3>3. CASE FuseRestores(r)
      <4>1. r \in Nat /\ run \in Nat /\ r <= run
        BY <3>3, RunsAssumption DEF FuseRestores, TInv, TypeOK, Runs
      <4>2. run = r => ~ok
        BY <3>3 DEF FuseRestores, TInv, FuseInv
      <4>3. QED
        BY <3>3, <4>1, <4>2
    <3>4. QED
      BY <3>1, <3>2, <3>3
  <2>4. CASE Start \/ Disarm \/ StopAndroid \/ RemoveOk \/ Claim \/ Launch \/ Look
    BY <2>4 DEF Start, Started, Disarm, StopAndroid, RemoveOk, Claim, Launch, Look, android
  <2>5. CASE KeepAwake \/ Freeze \/ Persist \/ Work \/ Quit \/ Finish
    BY <2>5 DEF KeepAwake, Freeze, Persist, Work, Quit, Finish, android
  <2>6. CASE StopBegin \/ StopKill \/ StopThaw \/ StopDefaults \/ StopResume \/ StopRemoveOk
    BY <2>6 DEF StopBegin, StopKill, StopThaw, StopDefaults, StopResume, StopRemoveOk, android
  <2>7. CASE Signalled \/ KwinDies \/ HelpersLeave \/ Restart \/ WatchdogStrikes
    BY <2>7 DEF Signalled, KwinDies, HelpersLeave, Restart, RestartKill, RestartStart,
                WatchdogStrikes, WatchdogMayStrike, android
  <2>8. QED
    BY <2>1, <2>2, <2>3, <2>4, <2>5, <2>6, <2>7, Zenon DEF Next, Takeover, DrmStop
<1>2. Spec => [][Step]_vars
  BY Inductive, <1>1, PTL DEF Spec
<1>3. QED
  BY <1>2 DEF ThawedBeforeDisplay
=============================================================================
