CONSTANTS
  Threads = {t1, t2}
  Leader = t1
  Committers = {t1, t2}
  KFiles = {f1, f2}
  WrapFile = WrapFile
  LeaseFile = LeaseFile
  RivalFile = RivalFile
  NoFile = NoFile
  MaxPhases = 2
  Envs <- ScriptEnvs
SPECIFICATION Spec
SYMMETRY FileSymmetry
INVARIANTS TypeOK MasterHandedOver NeverPastFilter
PROPERTIES NativeNotLockedOut
