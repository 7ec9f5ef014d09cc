SPECIFICATION FairSpec
CONSTANTS
    Requests = {r1, r2}
    Tenants = {t1, t2}
    Emails = {e1, e2}
    Slugs = {s1, s2}
    Tickets = {k1}
    Faults = {"db", "crash"}
INVARIANTS
    TypeOK
    AnswersStayInTenant
    RemoveIsFinal
    SignupAllOrNothing
    SignupOwns
    ContextIsVerified
    Inv
PROPERTIES
    TenantsAreIsolated
    EverySignupEnds
