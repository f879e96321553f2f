CONSTANTS
    c1 = c1  c2 = c2
    a1 = a1  a2 = a2  b1 = b1
    A = A  B = B
    x = x  y = y
    zero = zero  one = one
    Nobody = Nobody  NoTable = NoTable
    Missing = Missing  NoRow = NoRow
    Clients = {c1, c2}
    Tables = {A}
    Keys = {a1, a2}
    TableOf <- MCOneTable
    HighIds = {}
    Cols = {x}
    Vals = {zero, one}
    Empty = zero
    Groups <- MCOneGroup
    NumOf <- MCNumOf
    MaxConns = 2
    MaxOps = 1
    MaxBatch = 1
    NewCols = {x}
    IndexName <- MCIndexName
SPECIFICATION SpecUpgraded
INVARIANT RememberedHaveColumns
SYMMETRY Symmetry
