CONSTANTS
    Clients = {a, b}
    Tokens = {t1, t2}
    MaxHops = 3
    MaxFlight = 2
    NoToken = NoToken
SYMMETRY Symmetry
SPECIFICATION SafeSpec
INVARIANT ReissueQueued
CHECK_DEADLOCK FALSE
