CONSTANTS
    x = x  y = y
    two = two  odd = odd
    MaxId = 3
    Cols = {x, y}
    NewCols = {y}
    Vals = {two, odd}
    Empty = Empty
    Missing = Missing
    Default = two
    NoRow = NoRow
    NoLimit = NoLimit
    Unreadable = Unreadable
    Rank <- MCRank
    NumRead <- MCNumRead
    StoreCodec = "json"
    MaxOrders = 2
    Limits = {1, NoLimit}
SPECIFICATION Spec
INVARIANTS TypeOK OrderedAsInSql CountsAgree CellsTellTheValue
PROPERTY UpdatedRowsAreFound
