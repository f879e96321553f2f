CONSTANTS
    r1 = r1  r2 = r2
    one = one  two = two
    f = f  g = g  g_json = g_json  id = id  v = v  saved_at = saved_at
    Ids = {r1, r2}
    Vals = {one, two}
    Text <- MCText
    Json <- MCJson
    Names = {f, g, g_json, id, v, saved_at}
    IdName = id
    Fixed = {id, v, saved_at}
    JsonName <- MCJsonName
    Candidates <- MCCandidates
    Stores <- MCStores
    Default = one
    Missing = Missing
    NoRow = NoRow
    Unreadable = Unreadable
SPECIFICATION Spec
INVARIANTS TypeOK GroupsHold CellsTellTheValue
PROPERTY OnlyRowsPreventIt
SYMMETRY Symmetry
