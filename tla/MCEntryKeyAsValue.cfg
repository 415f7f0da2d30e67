SPECIFICATION Spec
CONSTANTS
    W = 8
    Keys <- MCKeys
    Strings <- MCStringsKey
    Ints <- MCInts
    Blanks <- MCBlanks
    MaxFields = 3
    EventType <- MCEventType
    ResponseType <- MCResponseType
    Ok <- MCOk
    response_cap = 25
    Page = 4
INVARIANTS CompleteIsAnswered
CHECK_DEADLOCK FALSE
