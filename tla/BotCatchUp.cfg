SPECIFICATION FairSpec
CONSTANTS
    NoAgent = NoAgent
    NoBot = NoBot
    NoRequest = NoRequest
    Name <- MCName
    Repaired <- MCRepaired
    Worker = {w1, w2}
    Agent = {a1}
    Bot = {b1, b2, b3}
    Requests <- ResaveMix
    Repeated = {"update"}
    MaxMoves = 3
    MaxFaults = 1
PROPERTY BotsCatchUp
CHECK_DEADLOCK FALSE
