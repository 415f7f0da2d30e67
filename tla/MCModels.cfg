SPECIFICATION Spec
CONSTANTS
    Inputs <- MCInputs
    RecursionLimit = 4
INVARIANTS ReachableIsClosure WalkDepthBounded RaisesIffUnusable NamesAreGenerated 
CHECK_DEADLOCK FALSE
