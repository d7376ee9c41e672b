SPECIFICATION Spec
CONSTANTS
    AlertIds = {1, 2, 3, 4, 5}
    Admins = {a1, a2}
    None = None
    Threshold = 2
    Window = 1
    Retention = 2
    MaxTroubles = 1
SYMMETRY Symmetry
INVARIANTS OneOpenPerKey ChannelBounded
PROPERTY ReadMarkHonest
