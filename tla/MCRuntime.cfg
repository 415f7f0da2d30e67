SPECIFICATION Spec
CONSTANTS
    i1 = i1
    i2 = i2
    i3 = i3
    NoInv = NoInv
    Ids <- MCIds
    Loops = {"shim", "start_lambda"}
    Need <- MCNeed
    ReqCapacity = 3
    MaxStarts = 3
INVARIANTS ExhaustionIsOwn FailureNotSuccess PostsAreCurrent
PROPERTIES InvocationsSpec EveryInvocationEnds PendingIsServed
CHECK_DEADLOCK FALSE
