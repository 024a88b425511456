CONSTANTS
    Ids = {r1, r2}
    Users = {u1, u2}
    Conns = {c1, c2}
    NoId = NoId
    ListPeers = ListPeers
    NoUser = NoUser
    NoConn = NoConn
    Call = Call
SYMMETRY Symmetry
SPECIFICATION SafeSpec
INVARIANTS TypeOK ToldTruth PendingAwaited NotDeaf SameUser
PROPERTY LoginComesFirst
CHECK_DEADLOCK FALSE
