\* Requests share nothing but the authorities: one worker and one user are enough.
CONSTANTS
    Worker = {w1}
    User = {u1}
    Tenant = {t1}
    Agency = {a1, a2}
    NoUser = NoUser
    NoTenant = NoTenant
    NoAgency = NoAgency
    Global = Global
SPECIFICATION FairSpec
INVARIANT FailsClosed
PROPERTY RefusedForCause
PROPERTY Answered
