\* Three rows, pages of one to three, three writes of others during a walk.
CONSTANTS
    Text <- MCText
    Date <- MCDate
    Number <- MCNumber
    Null = Null
    Within <- MCWithin
    Item <- MCItem
    RowOf <- MCRowOf
    Queries <- MCQueries
    MaxPlace = 4
    MaxSize = 3
    MaxWrites = 3
SPECIFICATION PagesSpec
INVARIANT WalkComplete
INVARIANT WalkExact
INVARIANT OppositesPartition
PROPERTY WalkEnds
CHECK_DEADLOCK FALSE
