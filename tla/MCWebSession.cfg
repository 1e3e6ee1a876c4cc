SPECIFICATION FairSpec
CONSTANTS
  alice = alice
  alice2 = alice2
  guest = guest
  host = host
  w1 = w1
  w2 = w2
  h1 = h1
  h2 = h2
  Blank = Blank
  Names <- MCNames
  Approvers = {guest, host}
  Granted <- MCGranted
  Links <- MCLinks
  Windows = {w1, w2}
  Sizes = {h1, h2}
  Quorum = 2
  MaxProposals = 1
  Scenarios <- MCScenarios
INVARIANTS
  InOrder
  ShowsLastTold
  CanVote
  StatusHonest
PROPERTIES
  ClickCounts
  VoteAsClicked
  NoticesLast
CHECK_DEADLOCK FALSE
