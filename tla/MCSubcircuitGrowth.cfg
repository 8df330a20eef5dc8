SPECIFICATION Spec
CONSTANTS
    Tasks <- GrowthTasks
    DB <- OneGrowthDB
INVARIANT NeverGrows
CHECK_DEADLOCK FALSE
