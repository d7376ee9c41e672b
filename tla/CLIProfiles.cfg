CONSTANTS
    None = None
    s1 = s1
    s2 = s2
    Names = {1, 2}
    Servers = {s1, s2}
    Tokens = {t1, t2, t3}
    derived <- MCDerived
SPECIFICATION Spec
INVARIANTS CurrentValid  TokensGoHome
PROPERTY LogoutRevokes
