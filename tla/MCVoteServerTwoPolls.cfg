CONSTANTS
    Voters = {v1, v2}
    Admins = {adm}
    Polls = {p1, p2}
    Options = {yes}
    Choices = {yes, junk}
    Tokens = {t1, t2, t3}
    RoundTicks = 1
    MaxRounds = 2
    Grace = 1
    NoUser = NoUser
    NoPoll = NoPoll
    NoChoice = NoChoice
    NoResult = NoResult
SYMMETRY Symmetry
SPECIFICATION SteadySpec
INVARIANTS LedgersAgree IssuedToInterested ClosedTogether
PROPERTIES ImplementsElection
