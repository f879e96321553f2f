CONSTANTS
    w1 = w1  w2 = w2  w3 = w3
    i1 = i1  i2 = i2  i3 = i3
    p = p  q = q
    NoRow = NoRow  Nothing = Nothing
    Writers = {w1, w2, w3}
    Ids = {i1, i2, i3}
    Parts = {p, q}
    Seqs = {1, 2, 3}
SPECIFICATION Spec
PROPERTY LandsAbove
CHECK_DEADLOCK FALSE
