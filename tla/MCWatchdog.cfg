\* A timeout of six units, ticks every three, handled up to one late; a tick and
\* the stop channel compete in the select.
SPECIFICATION FairSpec
CONSTANTS
  Half = 3
  Delay = 1
  Never = Never
INVARIANT
  HangWarned
PROPERTIES
  WarnedRight
  StopReturns
