SPECIFICATION ScanSpec
CONSTANTS
    Shapes <- MCShapes
    Servers = {srv}
    MaxPairs = 1
    MaxScan = 1
CHECK_DEADLOCK FALSE
INVARIANT
    NeverPromoted
