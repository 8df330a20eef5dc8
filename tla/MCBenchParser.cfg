SPECIFICATION Spec
CONSTANTS
    Files <- SmallFiles
    NextFiles <- NextSmallFiles
INVARIANTS
    ReadsMeaning
    MissingStaysMissing
    RoundTrip
CHECK_DEADLOCK FALSE
