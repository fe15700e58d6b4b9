SPECIFICATION Spec
CONSTANTS
  Pids = {p1, p2, p3}
  LastPid = p3
  Commands = {c1, c2}
  NoPid = NoPid
  Machines <- BestMachine
  MaxFaults = 0
INVARIANTS
  OneDaemon
