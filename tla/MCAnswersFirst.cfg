SPECIFICATION Spec
CONSTANTS
  agent = agent
  alice = alice
  None = None
  NoAnswer = NoAnswer
  Askers = {q1, q2}
  Guests <- MCGuests
  Roster <- FirstRoster
  Burst = 2
  Window = 2
  MaxSays = 3
INVARIANT FirstAnswerIsTheReply
