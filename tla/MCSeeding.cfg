CONSTANTS
  Kibi = 4
  Kilo = 3
  MaxInt = 31
  TooBig <- Amd64
  DefaultConc = 2
  DefaultBuffer = 6
  MinConns = 3
  DefaultPart = 3
  PatternLen = 3
  MaxSecs = 2
  Empty = Empty
  Err = Err
  DownPart <- OneKB
  UpPart <- OneKiB
  Files <- SomeFiles
SPECIFICATION Behaviour
INVARIANTS StreamSound PanicIsZeroPart NothingMissing RowsTell FiguresSound PlanSound
PROPERTY Settles
