SPECIFICATION Spec
CONSTANTS
  Agents = {a1, a2}
  Communities = {c1}
  Roles = {"contributor"}
  Choices = {"for", "against"}
  Levels = 2
  MaxMembers = 4
  MaxStored = 2
  StoredWays = {"unanimous"}
  MaxCalls = 5
  MaxFailures = 1
  Callers = {t1, t2}
SYMMETRY NamesOnly
INVARIANTS
  OneVote
  AckedVoteCounts
  ApprovedHasSupport
  IndexesAgree
