SPECIFICATION Spec
CONSTANTS
    W = 8
    Keys <- MCKeys
    Strings <- MCStrings
    Ints <- MCInts
    Blanks <- MCBlanks
    MaxFields = 3
    EventType <- MCEventType
    ResponseType <- MCResponseType
    Ok <- MCOk
    response_cap = 25
    Page = 4
INVARIANTS ReadsBack WellFormed AnswersFromEvent CompleteIsAnswered
CHECK_DEADLOCK FALSE
