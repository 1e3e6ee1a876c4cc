SPECIFICATION Spec
CONSTANTS
  agent = agent
  agent2 = agent2
  alice = alice
  bob = bob
  host = host
  c1 = c1
  c2 = c2
  keyboard = keyboard
  Keyboard = keyboard
  Host = host
  TTL = 0
  Retain = 1
  Guests <- QuorumGuests
  Approvers <- QuorumApprovers
  Supervised = {agent}
  Ctl = {c1}
  Quorum = 2
  MaxProposals = 1
  MaxTyped = 0
INVARIANT SettledCardsGo
