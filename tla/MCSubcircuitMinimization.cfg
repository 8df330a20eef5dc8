SPECIFICATION Spec
CONSTANTS
    Tasks <- SmallTasks
    DB <- SmallDB
INVARIANTS
    TablesAreRight
    GatesKeepFunction
    GrowsByKeptOnly
    SkipsOnlyWhenStable
PROPERTY ImplementsTransformer
CHECK_DEADLOCK FALSE
