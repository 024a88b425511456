CONSTANTS
    Ids = {r1, r2}
    Users = {u1}
    Conns = {c1, c2, c3}
    NoId = NoId
    ListPeers = ListPeers
    NoUser = NoUser
    NoConn = NoConn
    Call = Call
SPECIFICATION LiveSpec
PROPERTIES CallsReturn LoginSucceeds
CHECK_DEADLOCK FALSE
