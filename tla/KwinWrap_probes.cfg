CONSTANTS
  Threads = {t1, t2}
  Leader = t1
  Committers = {t1, t2}
  KFiles = {f1}
  WrapFile = WrapFile
  LeaseFile = LeaseFile
  RivalFile = RivalFile
  NoFile = NoFile
  MaxPhases = 2
  Envs <- SeccEnvs
SPECIFICATION Spec
INVARIANTS NeverLockedOut
