CONSTANTS
    Voters = {v1}
    Admins = {adm}
    Polls = {p1}
    Options = {yes, no}
    Choices = {yes, no}
    Tokens = {t1}
    RoundTicks = 1
    MaxRounds = 2
    Grace = 1
    NoUser = NoUser
    NoPoll = NoPoll
    NoChoice = NoChoice
    NoResult = NoResult
SPECIFICATION Spec
INVARIANT VoidNotCounted
