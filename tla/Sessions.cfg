SPECIFICATION Spec
CONSTANTS
    Requests = {r1, r2, r3, r4}
    Browsers = {b1, b2}
    Users = {u1}
    Tokens = {t1, t2, t3}
    Faults = {"db", "lost", "crash"}
SYMMETRY Symmetry
INVARIANTS
    TypeOK
    TokenSpentOnce
    RotationAddsNoSession
    LogoutKillsItsToken
    GoodLogoutRevokesAll
    Inv
