\* Three secondary cards: one that is set up, skipped or lost before and after another.
SPECIFICATION Spec
CONSTANTS
  N = 3
  Primary = eth0
  Bridges = {docker0}
  MaxPlugs = 1
  None = None
INVARIANTS
  RuleMeansRouted
  SourcesOwnCard
PROPERTY
  RerunIdle
