CONSTANTS
    i1 = i1
    i2 = i2
    k1 = k1
    k2 = k2
    Clients = {i1, i2}
    Keys = {k1, k2}
    KeyOf <- OwnKeys
    Users = {u1, u2}
    Conns = {c1, c2, c3}
    MaxInbox = 1
    NoConn = NoConn
    NoUser = NoUser
    NoClient = NoClient
    NoNews = NoNews
SYMMETRY Symmetry
SPECIFICATION SmallSpec
INVARIANTS TypeOK EntriesLive ViewsCoverDirectory FirstViewsExact
PROPERTIES EntryKept
CHECK_DEADLOCK FALSE
