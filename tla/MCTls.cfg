SPECIFICATION Spec
CONSTANTS
    MaxConns = 2
    MaxAddrs = 2
    Bufs <- MCBufs
    MaxStream = 4
    MaxPeer = 1
INVARIANTS StreamIntact NoLeak
PROPERTIES HangsOnlyOnSilence
CHECK_DEADLOCK FALSE
