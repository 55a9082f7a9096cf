\* One row is enough: no statement touches two.
CONSTANTS
    Worker = {w1, w2}
    Row = {k1}
    Key = {old, new}
    Endpoint = {url}
    Default = Default
    Keep = Keep
    NoRow = NoRow
    NoBody = NoBody
    MaxRequests = 3
SYMMETRY Symmetry
SPECIFICATION Spec
INVARIANT SavesAreWhole
INVARIANT DeletedOnce
PROPERTY InstallationGuarded
CHECK_DEADLOCK FALSE
