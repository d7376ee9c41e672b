SPECIFICATION FairSpec
CONSTANTS
    Stems = {s}
    MaxVariants = 1
    Contents = {a, b}
    Partial = Partial
    None = None
    Writers = {w1}
    Admins = {m1, m2}
    Claims = {k}
    MaxTemps = 1
    MaxOps = 3
    MaxRestarts = 0
    LastSecond = 0

    
    
PROPERTIES
    
    NothingDestroyed
    ClaimResolvedOnce
CHECK_DEADLOCK FALSE
