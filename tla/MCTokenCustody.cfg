CONSTANTS
    Clients = {a, b}
    Tokens = {t1, t2}
    MaxHops = 3
    MaxFlight = 2
    NoToken = NoToken
SYMMETRY Symmetry
SPECIFICATION SafeSpec
INVARIANTS TypeOK SpentOnce TokenNotLost DeadTokensDoomed
CHECK_DEADLOCK FALSE
