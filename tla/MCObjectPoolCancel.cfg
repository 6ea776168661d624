\* objectConcurrency below 1 is clamped to one worker; a cancellation then
\* falls between two objects.
SPECIFICATION Spec
CONSTANTS
  N = 2
  Requested = 0
  NoError = NoError
INVARIANT
  NilMeansAllRan
