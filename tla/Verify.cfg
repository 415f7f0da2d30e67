SPECIFICATION Spec
CONSTANTS
    Terminals = {t1, t2}
    Behaviours = {"echo", "wrong", "crash"}
    NoCode = NoCode
    Partial = Partial
    MaxPolls = 1
PROPERTIES SuccessIsGenuine LeftoversAreHarmless EveryRunEnds LocalstackTornDown
CHECK_DEADLOCK FALSE
