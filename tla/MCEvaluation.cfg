SPECIFICATION Spec
CONSTANTS
    Circuits <- AllCircuits
    InputAssignments <- Assignments
INVARIANTS
    TypeOK
    ComputesStates
    ImpliedByInput
    ImpliedIsGiven
    FamiliesAgree
PROPERTIES
    StatesAreFinal
    Termination
CHECK_DEADLOCK FALSE
