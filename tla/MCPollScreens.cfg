CONSTANTS
    Clients = {a, v}
    Admins = {a}
    Polls = {p1}
    Options = {yes, no}
    FirstOption = yes
    Loop = Loop
    Dashboard = Dashboard
    NoOption = NoOption
    NoResult = NoResult
    MaxInbox = 2
SPECIFICATION MCSpec
INVARIANTS TypeOK ResultsTrue OpenDoomed VotesPicked
PROPERTIES FlagsKept EveryoneLearns
