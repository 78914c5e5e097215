SPECIFICATION Spec
CONSTANTS
  LastRelease = 3
  Schema <- Schema3
  Broken = {2}
  Keep = 2
  KeepBaks = 3
  MaxFaults = 0
INVARIANTS
  OnlyBackupsPruned
