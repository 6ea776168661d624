\* Two keys: the snapshot is interrupted between them.
SPECIFICATION TuningSpec
CONSTANTS
  Keys = {bbr, rmem}
  DefaultKeys = {bbr}
PROPERTY
  RevertPrecise
