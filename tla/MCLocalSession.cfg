SPECIFICATION Spec
CONSTANTS
  a1 = a1
  a2 = a2
  alice = alice
  alice2 = alice2
  None = None
  Conns <- MCConns
  Names <- MCNames
  Wanted <- MCWanted
  Candidates <- MCCandidates
  Defaults = {TRUE}
  Controllers = {c1, c2}
  MaxCommands = 2
INVARIANTS
  TypeOK
  NamesUnique
  AtMostOneLate
  KickedOut
PROPERTIES
  OnlyClosedLeave
  ClosedLeave
CHECK_DEADLOCK FALSE
