CONSTANTS
    Clients = {c1, c2}
    ConnLimit = 1
SPECIFICATION Spec
INVARIANTS TypeOK SlotsCountConnections ResultsAreHonest
PROPERTIES SearchesEnd SlotsAreFreed
CHECK_DEADLOCK FALSE
