\* One session of an older database, three texts, two troubles; two requests
\* in a window of two ticks, and a sweep every three.
SPECIFICATION Spec
CONSTANTS
    Key = {k1}
    MaxRequests = 2
    RateWindow = 2
    SweepInterval = 2
    MaxTime = 5
    Session = {s1}
    Body = {n1, n2, e}
    Empty = e
    Null = Null
    MaxTrouble = 2
INVARIANTS WindowBound MigratedWhole NotesAgree
PROPERTIES ComesUp
