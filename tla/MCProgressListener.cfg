\* One object, three handlers, three totals: two events overtake a third between
\* its load and its swap, and the loop is retried twice.  The theorems cover any
\* number of objects; they share prog.Bytes and nothing else.
SPECIFICATION FairSpec
CONSTANTS
  Objects = {o1}
  Threads = {t1, t2, t3}
  Size = 3
INVARIANTS
  IInv
  CaughtUp
PROPERTIES
  ImplementsLiveCounter
  HandlersFinish
