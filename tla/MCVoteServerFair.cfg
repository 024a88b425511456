CONSTANTS
    Voters = {v1, v2}
    Admins = {adm}
    Polls = {p1}
    Options = {yes}
    Choices = {yes}
    Tokens = {t1, t2, t3}
    RoundTicks = 1
    MaxRounds = 2
    Grace = 1
    NoUser = NoUser
    NoPoll = NoPoll
    NoChoice = NoChoice
    NoResult = NoResult
SPECIFICATION CalmFairSpec
PROPERTIES WindowsClose ImplementsFairElection
