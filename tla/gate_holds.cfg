SPECIFICATION Spec
CONSTANTS
  Project = {1, 2}
  Memory = {m}
  Tx = {t1, t2, t3}
  Kind = {"mutate", "move"}
SYMMETRY Symmetry
INVARIANTS
  TypeOK NoLockCycle
PROPERTIES
  NoCrossing QuarantineHolds
CHECK_DEADLOCK FALSE
