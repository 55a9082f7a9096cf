SPECIFICATION Spec
CONSTANTS
    NoAgent = NoAgent
    NoBot = NoBot
    NoRequest = NoRequest
    Name <- MCName
    Repaired <- MCRepaired
    Worker = {w1, w2}
    Agent = {a1}
    Bot = {b1, b2, b3}
    Requests <- WholeMix
    Repeated = {}
    MaxMoves = 4
    MaxFaults = 2
INVARIANT LinkWhole
INVARIANT NoOrphanBot
INVARIANT NoDanglingBot
INVARIANT BotFollowsAgent
CHECK_DEADLOCK FALSE
