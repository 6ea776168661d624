\* Four objects, three workers: a worker takes several objects, two others can be
\* between their load and store of firstErr at once, and the dispatcher blocks in
\* the send while a failure is being stored.  The call really stops once it has
\* returned; a pool that stops earlier violates EventuallyReturns.
SPECIFICATION FairSpec
CONSTANTS
  N = 4
  Requested = 3
  NoError = NoError
INVARIANTS
  IInv
  ReturnSound
  LateStartBound
PROPERTIES
  ImplementsParallelRun
  EventuallyReturns
CHECK_DEADLOCK FALSE
