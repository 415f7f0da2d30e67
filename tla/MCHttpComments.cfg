SPECIFICATION Spec
CONSTANTS
    RecvBufSize = 31
    Slack = 0
    Statuses <- MCStatuses
    HeaderLists <- MCHeaderLists
    Bodies <- MCBodies
    Numeral <- MCNumeral
INVARIANTS CommentsHold
CHECK_DEADLOCK FALSE
