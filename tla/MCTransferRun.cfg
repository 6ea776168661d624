\* Two groups of two objects, each with a warmup pass and two kept ones: what one
\* pass or one group leaves behind must not reach the next.  A transfer can fail
\* before, between and after its two units.
SPECIFICATION FairSpec
CONSTANTS
  Groups = 2
  N = 2
  Limit = 2
  Warmup = 1
  Iterations = 2
  Size = 2
  NoError = NoError
INVARIANTS
  IInv
  InFlightSound
  ResultSound
  FilesDelivered
PROPERTY
  RunReturns
