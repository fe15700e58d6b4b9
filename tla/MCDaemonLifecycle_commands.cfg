SPECIFICATION FairSpec
CONSTANTS
  Pids = {p1, p2, p3}
  LastPid = p3
  Commands = {c1}
  NoPid = NoPid
  Machines <- BestAndWorst
  MaxFaults = 2
INVARIANTS
  OneDaemon
  PIDFileNamesDaemon
PROPERTIES
  SocketLostOnlyToPredecessor
  StopIsTruthful
  CommandsReturn
  StartRecovers
