CONSTANTS
    c1 = c1  c2 = c2  p1 = p1  p2 = p1
    a1 = a1  a2 = a2
    A = A
    x = x
    zero = zero  one = one
    NoTable = NoTable  NoEntry = NoEntry  Kept = Kept
    Missing = Missing  NoRow = NoRow
    Clients = {c1, c2}
    Procs = {p1}
    ProcOf <- MCProcOf
    Tables = {A}
    Keys = {a1, a2}
    TableOf <- MCTableOf
    HighIds = {}
    Cols = {x}
    Vals = {zero, one}
    Empty = zero
    Groups <- MCOneGroup
    NumOf <- MCNumOf
    IndexName <- MCIndexName
    MaxBatch = 2
    NewCols = {}
    Calls = {"replace", "batch"}
SPECIFICATION SpecFair
PROPERTY EveryCallReturns
