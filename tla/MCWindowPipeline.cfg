SPECIFICATION FairSpec
CONSTANTS
  NumWindows = 1
  SoftLimit = 3
  HardLimit = 4
  MaxCohorts = 6
  Classes <- MCClasses
  NoWindow = NoWindow
INVARIANTS
  TypeOK
  WindowsSealed
  WindowsWellCut
  Lookahead
PROPERTIES
  ImplementsStream
  EverythingPrinted
