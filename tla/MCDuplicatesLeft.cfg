SPECIFICATION Spec
CONSTANTS
    Tasks <- TwoUserTasks
    UniqueIds = {"u1", "u2"}
INVARIANT NoDuplicatesLeft
CHECK_DEADLOCK FALSE
