\* Two requests at once, a file of two agents, plans of none, one, two agents or no limit.
CONSTANTS
    Worker = {w1, w2}
    Tenant = {t1, t2}
    Agent = {a1, a2, a3}
    NoTenant = NoTenant
    NoAgent = NoAgent
    NoWorker = NoWorker
    MaxLimit = 2
    MaxImport = 2
    MaxRequests = 4
SYMMETRY Symmetry
SPECIFICATION Spec
INVARIANT QuotaKept
INVARIANT AnswersAreWritten
INVARIANT BoundIsServed
PROPERTY FateShared
CHECK_DEADLOCK FALSE
