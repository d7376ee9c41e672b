SPECIFICATION Spec
CONSTANTS
    Users = {u1, u2}
    Passwords = {p1}
    Subjects = {g1, g2}
    Names = {laptop}
    MaxSecrets = 2
    Handlers = {h1, h2}
    SessionCap = 1
    SessionDuration = 2
    MaxTime = 2
    None = None
SYMMETRY Symmetry
INVARIANTS
    AdminExists
    InactiveHoldsNothing
    TokenNamesUnique
    SubjectsUnique
    SessionsCapped
PROPERTIES
    SubjectNeverRelinked
    LoginSurvivesTrim
    ImplementsAuthority
