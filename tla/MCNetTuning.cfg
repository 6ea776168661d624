\* Three keys, so that a loop can be interrupted before, between and after them.
SPECIFICATION TuningSpec
CONSTANTS
  Keys = {bbr, slowstart, rmem}
  DefaultKeys = {bbr, slowstart}
INVARIANTS
  TuningIInv
  BootHasBackup
  SnapshotGenuine
PROPERTY
  RevertRestores
