\* Every choice of options; two prints, two bytes and two samples, so that the
\* copy and the sampler lag behind what they follow.  The program really stops;
\* one that stops earlier violates ProgramExits.
SPECIFICATION FairSpec
CONSTANTS
  Headers = 2
  MaxBytes = 2
  MaxSamples = 2
  MaxStalls = 1
INVARIANTS
  NothingOutlives
  HandedOver
  MirrorSound
  StatusSound
PROPERTY
  ProgramExits
CHECK_DEADLOCK FALSE
