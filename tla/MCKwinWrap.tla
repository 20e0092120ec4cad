---------------------------- MODULE MCKwinWrap ----------------------------
(* KwinWrap on small instances, and the properties the runs check. *)
EXTENDS KwinWrap, TLC

FileSymmetry == Permutations(KFiles)

(* The environment all scripts run kwin in (drm-takeover.sh:204,            *)
(* desk-takeover.sh:124, kwin-restart.sh:13: KWINWRAP_SECCOMP, no lease),   *)
(* on a kernel that honours x8 and on one that does not.                    *)
ScriptEnvs  == [hijack : {TRUE}, lease : {FALSE}, secc : {TRUE}, x8 : BOOLEAN]
ServiceEnvs == [hijack : BOOLEAN, lease : BOOLEAN, secc : BOOLEAN, x8 : {TRUE}]
SeccEnvs   == [hijack : {TRUE}, lease : {FALSE}, secc : {TRUE}, x8 : {TRUE}]
PlainEnvs  == [hijack : {FALSE}, lease : {FALSE}, secc : {FALSE}, x8 : {TRUE}]
===========================================================================
