SPECIFICATION Spec
CONSTANTS
    Stems = {s}
    MaxVariants = 1
    Contents = {a, b}
    Partial = Partial
    None = None
    Writers = {w1}
    Admins = {m1}
    Claims = {}
    MaxTemps = 1
    MaxOps = 2
    MaxRestarts = 0
    LastSecond = 0
INVARIANT LastScanReported
CHECK_DEADLOCK FALSE
