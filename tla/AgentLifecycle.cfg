SPECIFICATION FairSpec
CONSTANTS
  Agents = {a1, a2}
  Jobs <- MCJobs
  MaxWorkers = 2
  MaxQueue = 3
  Liberties = {"failure", "pause", "reject"}
INVARIANTS
  HoldersCounted
  DrainedWhenUnheld
  TurnsInOrder
PROPERTIES
  JobsAreTaken
