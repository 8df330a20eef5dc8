SPECIFICATION Spec
CONSTANTS
    Tasks <- AppTasks
    UniqueIds = {"u1", "u2"}
INVARIANT NeverAborts
CHECK_DEADLOCK FALSE
