SPECIFICATION Spec
CONSTANTS
  a = a
  alice = alice
  bob = bob
  None = None
  Conns <- MCConns
  Names <- MCNames
  Wanted <- MCWanted
  Candidates <- MCCandidates
  Defaults = {TRUE, FALSE}
  Reader = reader
  Controllers = {reader}
  Callers = {k1, k2}
  MaxCalls = 2
  MaxInputs = 2
INVARIANTS
  OwnResult
CHECK_DEADLOCK FALSE
