SPECIFICATION Spec
CONSTANTS
    Requests = {r1, r2, r3}
    Browsers = {b1}
    Users = {u1}
    Tokens = {t1, t2, t3}
    Faults = {}
INVARIANT RefreshKeepsSession
