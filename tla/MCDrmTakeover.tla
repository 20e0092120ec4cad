--------------------------- MODULE MCDrmTakeover ---------------------------
(* DrmTakeover with the settings the README names: a touchdraw round, a kwin *)
(* round, and PERSIST=1 with either.                                         *)
EXTENDS DrmTakeover

TouchRound  == [persist |-> FALSE, kwin |-> FALSE]
KwinRound   == [persist |-> FALSE, kwin |-> TRUE]
TouchKept   == [persist |-> TRUE, kwin |-> FALSE]
Persistent  == [persist |-> TRUE, kwin |-> TRUE]

AllModes     == {TouchRound, KwinRound, TouchKept, Persistent}
OnlyPersist  == {Persistent}
OnlyRounds   == {TouchRound, KwinRound}
=============================================================================
