\* Two requests at once on one agent.
CONSTANTS
    Handler = {w1, w2}
    ToolId = {"t1"}
    Agent = {"a1"}
    Server = {"s1"}
    Provider = {"n8n"}
    Edits <- MCEdits
    MaxRequests = 3
SYMMETRY Symmetry
SPECIFICATION ConfigSpec
INVARIANT SaveIsMerge
INVARIANT SharedKeyHolds
INVARIANT CopiesStayOut
INVARIANT StoredIsValid
CHECK_DEADLOCK FALSE
