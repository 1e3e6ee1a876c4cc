SPECIFICATION Spec
CONSTANTS
  opus = opus
  astra = astra
  spy = spy
  nvda = nvda
  Pending = Pending
  Failed = Failed
  Models = {opus, astra}
  Name <- MCName
  Bench = "HODL"
  Symbols <- MCSymbols
  Benchmark = spy
  Markets <- MCMarkets
  Decisions <- MCDecisions
  Rosters <- MCRosters
  Cash = 4
  Scale = 4
  MinOrder = 1
  Crumb = 2
  KeepNotes = 2
  Every = 1
  MaxTime = 2
  MaxStarts = 2
INVARIANTS
  TypeOK
  ProgressSaved
  OneDecisionARound
PROPERTIES
  NoFreeMoney
  RoundsApart
  ImplementsGame
  RoundEnds
CHECK_DEADLOCK FALSE
