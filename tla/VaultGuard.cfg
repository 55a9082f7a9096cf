SPECIFICATION Spec
CONSTANTS
    w1 = w1
    w2 = w2
    c1 = c1
    c2 = c2
    c3 = c3
    i1 = i1
    i2 = i2
    nexus = nexus
    bot = bot
    agentEnv = agentEnv
    NoOwner = NoOwner
    NoCred = NoCred
    NoRequest = NoRequest
    Name = {"github", "notion", "other"}
    CanonName <- MCCanonName
    StoreOf <- MCStoreOf
    Worker = {w1, w2}
    Cred = {c1, c2}
    Integration = {i1, i2}
    Listed = {i1}
    Consumer = {nexus, bot, agentEnv}
    Requests <- WriteMix
    MaxMoves = 5
    MaxFaults = 1
INVARIANT TypeOK
INVARIANT ValidatedReferences
PROPERTY ReferencesGuarded
PROPERTY ConnectionGuarded
PROPERTY InstallationScopeGuarded
CHECK_DEADLOCK FALSE
