SPECIFICATION FairSpec
CONSTANTS
    Logins = {l1, l2}
    Users = {u1, u2}
    Names = {laptop}
    Addresses = {ip1, ip2}
    Handlers = {h1, h2}
    ChallengeCap = 1
    Lifetime = 2
    Interval = 1
    MaxTime = 2
    MaxFailures = 1
    None = None
INVARIANTS
    NoStrayToken
    ClaimHeld
PROPERTIES
    LoginEnds
    ImplementsCredential
CHECK_DEADLOCK FALSE
