--------------------------- MODULE CommitService ---------------------------
(***************************************************************************)
(* What kwin is promised of MODE_ATOMIC, however the commit reaches the    *)
(* kernel: a commit it submits takes effect at most once, before the       *)
(* answer, and the answer is "ok" exactly when it did.                     *)
(***************************************************************************)
EXTENDS Naturals

CONSTANT Threads

VARIABLES
  waiting,    \* the threads waiting for the answer to a commit
  effects,    \* how often each thread's current (or last) commit took effect
  told        \* the answer each thread last had, "none" if it was not to a commit

cvars == <<waiting, effects, told>>

CTypeOK == /\ waiting \subseteq Threads
           /\ effects \in [Threads -> {0, 1}]
           /\ told \in [Threads -> {"none", "ok", "failed"}]

CInit == /\ waiting = {}
         /\ effects = [t \in Threads |-> 0]
         /\ told = [t \in Threads |-> "none"]

(* A thread submits a commit, or turns to something else. *)
Turn(t) == /\ t \notin waiting
           /\ waiting' \in {waiting, waiting \cup {t}}
           /\ effects' = [effects EXCEPT ![t] = 0]
           /\ told' = [told EXCEPT ![t] = "none"]

TakeEffect(t) == /\ t \in waiting /\ effects[t] = 0
                 /\ effects' = [effects EXCEPT ![t] = 1]
                 /\ UNCHANGED <<waiting, told>>

(* The answer; the commit may take effect together with it. *)
Answer(t) == /\ t \in waiting
             /\ waiting' = waiting \ {t}
             /\ effects' \in {effects, [effects EXCEPT ![t] = 1]}
             /\ told' = [told EXCEPT ![t] = IF effects'[t] = 1 THEN "ok" ELSE "failed"]

(* Threads die without an answer. *)
Abandon(S) == /\ waiting' = waiting \ S
              /\ told' = [t \in Threads |-> IF t \in S THEN "none" ELSE told[t]]
              /\ UNCHANGED effects

CNext == \/ \E t \in Threads : Turn(t) \/ TakeEffect(t) \/ Answer(t)
         \/ \E S \in SUBSET Threads : Abandon(S)

CSpec == CInit /\ [][CNext]_cvars
=============================================================================
