SPECIFICATION FilesSpec
CONSTANTS
  Paths = {f1, f2, f3, f4}
  Procs = {p1, p2}
  None = None
  MaxIds = 2
  MaxOthers = 1
INVARIANTS FilesTypeOK ProfileHasItsKey
PROPERTIES NothingIsClobbered InputBackupIntact
CHECK_DEADLOCK FALSE
SYMMETRY FilesSymmetry
