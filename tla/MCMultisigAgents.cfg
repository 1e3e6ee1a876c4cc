SPECIFICATION Spec
CONSTANTS
  agent = agent
  agent2 = agent2
  alice = alice
  bob = bob
  host = host
  c1 = c1
  c2 = c2
  keyboard = keyboard
  Keyboard = keyboard
  Host = host
  TTL = 0
  Retain = 1
  Guests <- AgentsGuests
  Approvers = {host}
  Supervised <- AgentsGuests
  Ctl = {c1, c2}
  Quorum = 1
  MaxProposals = 2
  MaxTyped = 1
INVARIANTS
  CarriedOnce
  TypeOK
  AuditCoversPty
PROPERTIES
  SettledForGood
  ImplementsBallots
