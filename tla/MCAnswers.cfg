SPECIFICATION Spec
CONSTANTS
  agent = agent
  alice = alice
  None = None
  NoAnswer = NoAnswer
  Askers = {q1, q2}
  Guests <- MCGuests
  Roster <- MCRoster
  Burst = 2
  Window = 2
  MaxSays = 3
INVARIANTS
  TypeOK
  TimeoutNeverHangs
  NoTextLost
  RateLimited
PROPERTIES
  AskReturns
  ImplementsQuestions
CHECK_DEADLOCK FALSE
