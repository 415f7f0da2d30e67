SPECIFICATION Spec
CONSTANTS
    SIZE_T = 256
    AddrTop = 40
    Capacity <- MCCapacity
    Sizes = {0, 8, 9}
    Values = {0, 1}
    Zero = 0
INVARIANTS TypeOK BlocksDisjoint
PROPERTIES FrozenMemory RegionSpec
CHECK_DEADLOCK FALSE
