SPECIFICATION Spec
CONSTANTS
    Programs <- MCPrograms
    Slots <- MCSlots
    MaxInvocations = 3
INVARIANTS CompilesIffResolvable NoFault NoDanglingRead RequestMemoryRecycled
CHECK_DEADLOCK FALSE
