CONSTANTS
    Letters = {x, y}
    Blank = Blank
    Newline = Newline
    Bad = Bad
    MaxLength = 6
    ReadSize = 3
SPECIFICATION FairSpec
INVARIANT ChunkingInvisible
PROPERTIES AllDispatched
CHECK_DEADLOCK FALSE
