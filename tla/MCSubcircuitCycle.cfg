SPECIFICATION Spec
CONSTANTS
    Tasks <- CycleTasks
    DB <- OneCycleDB
INVARIANT StaysAcyclic
CHECK_DEADLOCK FALSE
