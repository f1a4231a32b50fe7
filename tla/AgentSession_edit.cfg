SPECIFICATION FairSpec
CONSTANTS
    Msg = {m1, m2, e1}
    Edits = {e1}
    Compact = {}
    Retry = {}
    User = {}
    None = None
    MaxOutside = 1
    Features = {}
PROPERTIES EditTruncatesFirst
CHECK_DEADLOCK FALSE
