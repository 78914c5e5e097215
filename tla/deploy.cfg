SPECIFICATION Spec
CONSTANTS
  LastRelease = 3
  Schema <- Schema3
  Broken = {2}
  Keep = 2
  KeepBaks = 2
  MaxFaults = 3
INVARIANTS
  UpToDateIsTrue
  ServesUnlessMigrated
  BackupAtHand
  SnapshotBeforeMigration
PROPERTIES
  EventuallyCurrent
