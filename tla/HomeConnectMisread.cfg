SPECIFICATION Spec
CONSTANTS
  Surge = 1
  Ratio = 2
  Targets = 2
  LocalClasses = {"denied", "resource"}
  PeerCounts = {1, 2}
  PortUsages <- MCPortUsages
  MaxFlow <- MCMaxFlow
  MaxCounter <- MCMaxCounter
INVARIANTS
  SurgeNeverClaimed
