\* Two goroutines: one waits for the mutex while the other looks up; two names share
\* the mutex and nothing else; five dials are two rounds and a half of two addresses.
\* The model stops when MaxDials is used up; a call that blocks violates DialsProceed.
SPECIFICATION FairSpec
CONSTANTS
  Conns = {c1, c2}
  Hosts = {bench, results}
  Sources <- TwoCards
  Answers <- TwoAnswers
  TTL = 1
  MaxDials = 5
  None = None
  Plain = "plain"
INVARIANTS
  SpreadEvenly
PROPERTIES
  FreshOrPlain
  LookupsApart
  DialsProceed
CHECK_DEADLOCK FALSE
