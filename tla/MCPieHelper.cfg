SPECIFICATION Spec
CONSTANTS
    Programs <- HelperPrograms
    Slots <- MCSlots
    MaxInvocations = 3
INVARIANTS NoFault
CHECK_DEADLOCK FALSE
