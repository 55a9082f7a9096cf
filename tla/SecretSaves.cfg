SPECIFICATION Spec
CONSTANTS
    Worker = {w1, w2}
    Tool = {t1}
    Mcp = {m1}
    Integration = {i1}
    auth = auth
    plain = plain
    Name = {auth, plain}
    Secret = {auth}
    v1 = v1
    sk = sk
    Value = {v1, sk}
    TokenLike = {sk}
    Blank = Blank
    Absent = Absent
    Keep = Keep
    Drop = Drop
    NoRequest = NoRequest
    Initial <- InitialContents
    Requests <- WholeMix
    MaxMoves = 3
    MaxFaults = 1
SYMMETRY Symmetry
INVARIANT ToolsMatchHeaders
PROPERTY SavesAreEdits
CHECK_DEADLOCK FALSE
