SPECIFICATION FairSpec
CONSTANTS
  Pids = {p1, p2, p3}
  LastPid = p3
  Commands = {c1}
  NoPid = NoPid
  Machines <- BestMachine
  MaxFaults = 1
PROPERTIES
  StalePIDFileRemoved
