CONSTANTS
  Threads = {t1}
  Leader = t1
  Committers = {t1}
  KFiles = {f1}
  WrapFile = WrapFile
  LeaseFile = LeaseFile
  RivalFile = RivalFile
  NoFile = NoFile
  MaxPhases = 1
  Envs <- PlainEnvs
SPECIFICATION Spec
INVARIANTS DroppedBeforeExec
