SPECIFICATION Spec
CONSTANTS
  c1 = c1
  c2 = c2
  u1 = u1
  u2 = u2
  Calls <- MCCalls
  Clients <- MCClients
INVARIANTS AnswerKept Registered
PROPERTIES NotifyEnds
