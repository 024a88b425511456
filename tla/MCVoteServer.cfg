CONSTANTS
    Voters = {v1, v2}
    Admins = {adm}
    Polls = {p1}
    Options = {yes, no}
    Choices = {yes, no, junk}
    Tokens = {t1, t2, t3}
    RoundTicks = 1
    MaxRounds = 3
    Grace = 1
    NoUser = NoUser
    NoPoll = NoPoll
    NoChoice = NoChoice
    NoResult = NoResult
SYMMETRY Symmetry
SPECIFICATION Spec
INVARIANTS TypeOK PublishedIsFinal RoundsPaced OneTokenPerRound TurnoutSound
PROPERTIES VotesPermanent
