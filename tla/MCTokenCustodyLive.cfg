CONSTANTS
    Clients = {a, b, c}
    Tokens = {t1, t2}
    MaxHops = 3
    MaxFlight = 3
    NoToken = NoToken
SPECIFICATION LiveSpec
INVARIANTS OneLayerEach
PROPERTIES VotesArrive Anonymizes
CHECK_DEADLOCK FALSE
