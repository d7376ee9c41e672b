SPECIFICATION Spec
CONSTANTS
    Stems = {s}
    MaxVariants = 2
    Contents = {a, b}
    Partial = Partial
    None = None
    Writers = {w1, w2}
    Admins = {m1}
    Claims = {}
    MaxTemps = 2
    MaxOps = 2
    MaxRestarts = 1
    LastSecond = 1
SYMMETRY Symmetry
INVARIANTS
    IndexIdsUnique
    
    IndexAccurate
    TempsOwned
    JobsSettle
    NamesWhole
CHECK_DEADLOCK FALSE
