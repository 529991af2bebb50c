SPECIFICATION TimerSpec
CONSTANTS
  Agents = {a1, a2}
  Jobs <- MCOneJob
  MaxWorkers = 2
  MaxQueue = 2
  Liberties = {"backend", "overlap", "busy", "timeout"}
INVARIANTS
  StoppedHoldsNothing
  QueueServed
PROPERTIES
  DownEnds
