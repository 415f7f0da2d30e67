SPECIFICATION Spec
CONSTANTS
    RecvBufSize = 32
    Slack = 1
    Statuses <- MCStatuses
    HeaderLists <- MCHeaderLists
    Bodies <- MCBodies
    Numeral <- MCNumeral
INVARIANTS TypeOK SegmentationIndependent ParsesReceivedBytes NeverStarves
PROPERTIES Terminates
CHECK_DEADLOCK FALSE
