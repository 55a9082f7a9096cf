SPECIFICATION Spec
CONSTANTS
    NoFolder = NoFolder
    NoAgent = NoAgent
    NoRequest = NoRequest
    owner = owner
    guest = guest
    Worker = {w1, w2}
    Folder = {f1, f2}
    User = {owner, guest}
    Share = {s0, s1, s2}
    s0 = s0
    Agent = {a1}
    Requests <- WholeMix
    MaxMoves = 5
    MaxFaults = 1
INVARIANT OneActiveShare
INVARIANT StaysAssigned
CHECK_DEADLOCK FALSE
