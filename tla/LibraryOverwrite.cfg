SPECIFICATION Spec
CONSTANTS
    Stems = {s}
    MaxVariants = 1
    Contents = {a, b}
    Partial = Partial
    None = None
    Writers = {w1, w2}
    Admins = {}
    Claims = {}
    MaxTemps = 2
    MaxOps = 2
    MaxRestarts = 0
    LastSecond = 0
PROPERTY NothingDestroyed
CHECK_DEADLOCK FALSE
