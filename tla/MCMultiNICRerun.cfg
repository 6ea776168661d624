\* Two cards, the second of which is set up before the first has an address.
SPECIFICATION Spec
CONSTANTS
  N = 2
  Primary = eth0
  Bridges = {}
  MaxPlugs = 0
  None = None
PROPERTY
  RerunSafe
