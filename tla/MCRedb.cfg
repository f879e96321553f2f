CONSTANTS
    c1 = c1  c2 = c2
    a1 = a1  a2 = a2  b1 = b1
    A = A  B = B
    x = x  y = y
    zero = zero  one = one
    Nobody = Nobody  NoTable = NoTable
    Missing = Missing  NoRow = NoRow
    Clients = {c1, c2}
    Tables = {A, B}
    Keys = {a1, a2, b1}
    TableOf <- MCTableOf
    HighIds = {a2}
    Cols = {x}
    Vals = {zero, one}
    Empty = zero
    Groups <- MCGroups
    NumOf <- MCNumOf
    MaxBatch = 2
SPECIFICATION Spec
INVARIANTS TypeOK UntornAreUnique UntornMirror
PROPERTIES ImplementsUniqueTable
SYMMETRY Symmetry
